---------------------------- MODULE Spec2Model ----------------------------
(***************************************************************************)
(* Model of the XML <-> dict converter of openstreetmap-ng:                *)
(*   speedup/xml_parse.c    xml_parse   (pull parser, bounded frame stack) *)
(*   speedup/xml_unparse.c  xml_unparse (tree -> XML document)             *)
(*   optimized/xml_parse.c  xml_parse   (the same parser, list as stack)   *)
(* and of two helpers:                                                     *)
(*   speedup/element_type.c   typed element ids                            *)
(*   speedup/buffered_rand.c  random bytes served from a buffer            *)
(*                                                                         *)
(* Strings that the code inspects byte by byte (attribute values, text)    *)
(* are sequences of one-character strings.  Element and attribute names    *)
(* are TLA+ strings; dict keys are pairs <<prefix, name>> with prefix      *)
(* "@" (attribute), "#" (the #text key) or "" (child element).             *)
(***************************************************************************)
EXTENDS Integers, Sequences, FiniteSets, TLC

(***************************************************************************)
(* Program constants                                                       *)
(***************************************************************************)
STACK_SIZE == 10

\* Bounds of the explored input space
\* elements per document (structure profile)
MaxElems == 3
\* nesting depth of a document (structure profile)
MaxDepth == 3
\* attributes plus text nodes per document
MaxDecor == 2
\* attributes plus text nodes of a document of the deep-chain profile
DeepExtra == 1
\* reader errors, early ends of input and allocation failures happen while
\* at most this many elements of a structure-profile document have started
MaxFaultElems == 2

(***************************************************************************)
(* strcmp on the names the model uses: NameOrder lists them in ascending   *)
(* byte-wise order, so the sign of a rank difference is the sign strcmp    *)
(* returns.                                                                *)
(***************************************************************************)
NameOrder ==
  << "Node", "bounds", "changes_count", "changeset", "closed_at",
     "comment", "comments_count", "create", "created_at", "date",
     "delete", "ele", "gpx_file", "id", "k", "lat", "lon", "max_lat",
     "max_lon", "member", "min_lat", "min_lon", "modify", "name", "nd",
     "nod", "node", "nodes", "note", "num_changes", "open", "osm",
     "osmChange", "pending", "preference", "ref", "relation", "root",
     "tag", "time", "timestamp", "trk", "trkp", "trkpt", "trkseg", "uid",
     "updated_at", "v", "version", "versions", "visible", "way", "x" >>

NameRank(n) == CHOOSE i \in 1..Len(NameOrder) : NameOrder[i] = n

strcmp(a, b) == NameRank(a) - NameRank(b)

\* the table without the actions of an osmChange document
force_items_set_elements == << "bounds", "node", "relation", "way" >>

force_items_set ==
  << "bounds", "create", "delete", "modify", "node", "relation", "way" >>

\* the same ten names with tag moved to the front
force_list_set_tag_first ==
  << "tag", "comment", "gpx_file", "member", "nd", "note", "preference",
     "trk", "trkpt", "trkseg" >>

force_list_set ==
  << "comment", "gpx_file", "member", "nd", "note", "preference", "tag",
     "trk", "trkpt", "trkseg" >>

\* bsearch over base[1..Len(base)]: index of the match, 0 when not found.
\* lo is the first candidate index, hi one past the last.
RECURSIVE bsearch(_, _, _, _)
bsearch(key, base, lo, hi) ==
  IF lo >= hi THEN 0
  ELSE LET idx == (lo + hi) \div 2
           c   == strcmp(key, base[idx])
       IN  IF c < 0 THEN bsearch(key, base, lo, idx)
           ELSE IF c > 0 THEN bsearch(key, base, idx + 1, hi)
           ELSE idx

in_set(str, set) == bsearch(str, set, 1, Len(set) + 1) # 0

(***************************************************************************)
(* Python values                                                           *)
(***************************************************************************)
NULLPTR == [t |-> "NULL"]                 \* C nullptr
PyNone  == [t |-> "None"]                 \* Py_None
PyStr(s)   == [t |-> "Str", s |-> s]
PyInt(neg, mag) == [t |-> "Int", neg |-> neg, mag |-> mag]
PyFloat(neg, ip, fp) == [t |-> "Float", neg |-> neg, ip |-> ip, fp |-> fp]
PyBool(b)  == [t |-> "Bool", b |-> b]
PyDateTime(tz, date, time, us) ==
  [t |-> "Timestamp", tz |-> tz, date |-> date, time |-> time, us |-> us]
PyKey(k)   == [t |-> "Key", k |-> k]      \* a str object holding a name
PyDict(e)  == [t |-> "Dict", e |-> e]     \* e: sequence of <<key, value>>
PyList(e)  == [t |-> "List", e |-> e]
PyTuple(e) == [t |-> "Tuple", e |-> e]

text_key == <<"#", "text">>
\* a dict key that is no str object: the int n
IntKey(n) == <<"int", n>>
\* PyUnicode_CheckExact of a dict key
IsStrKey(key) == key[1] # "int"
TagKey(name)  == <<"", name>>

SeqRange(s) == {s[i] : i \in 1..Len(s)}

\* PyDict_GetItem: the value stored under key, nullptr when absent
PyDict_GetItem(d, key) ==
  IF \E i \in 1..Len(d.e) : d.e[i][1] = key
  THEN d.e[CHOOSE i \in 1..Len(d.e) : d.e[i][1] = key][2]
  ELSE NULLPTR

\* PyDict_SetItem: an existing key keeps its position, a new key goes last
PyDict_SetItem(d, key, value) ==
  IF \E i \in 1..Len(d.e) : d.e[i][1] = key
  THEN PyDict([i \in 1..Len(d.e) |->
                 IF d.e[i][1] = key THEN <<key, value>> ELSE d.e[i]])
  ELSE PyDict(Append(d.e, <<key, value>>))

PyDict_GET_SIZE(d) == Len(d.e)

\* PyDict_Items: list of (key, value) tuples in insertion order
PyDict_Items(d) ==
  [i \in 1..Len(d.e) |-> PyTuple(<<PyKey(d.e[i][1]), d.e[i][2]>>)]

(***************************************************************************)
(* Scalarizers (the postprocess_xml functions).  strtoll and strtod are    *)
(* modelled on                                                             *)
(* the characters of the value; numbers are kept as digit strings so that  *)
(* the 64-bit range test needs no wide arithmetic.                         *)
(***************************************************************************)
DigitChars == <<"0", "1", "2", "3", "4", "5", "6", "7", "8", "9">>
IsDigit(c) == \E i \in 1..10 : DigitChars[i] = c
DigitVal(c) == (CHOOSE i \in 1..10 : DigitChars[i] = c) - 1
isspace(c) == c \in {" ", "\t", "\n", "\r"}

RECURSIVE SkipSpace(_)
SkipSpace(s) ==
  IF s # <<>> /\ isspace(Head(s)) THEN SkipSpace(Tail(s)) ELSE s

RECURSIVE DigitPrefix(_)
DigitPrefix(s) ==
  IF s # <<>> /\ IsDigit(Head(s)) THEN <<Head(s)>> \o DigitPrefix(Tail(s))
  ELSE <<>>

RECURSIVE StripLeadingZeros(_)
StripLeadingZeros(d) ==
  IF Len(d) > 1 /\ Head(d) = "0" THEN StripLeadingZeros(Tail(d))
  ELSE IF d = <<>> THEN <<"0">> ELSE d

RECURSIVE StripTrailingZeros(_)
StripTrailingZeros(d) ==
  IF d # <<>> /\ d[Len(d)] = "0" THEN StripTrailingZeros(SubSeq(d, 1, Len(d) - 1))
  ELSE d

\* a < b for digit strings without leading zeros
RECURSIVE LexLess(_, _)
LexLess(a, b) ==
  IF a = <<>> THEN FALSE
  ELSE IF DigitVal(Head(a)) # DigitVal(Head(b))
       THEN DigitVal(Head(a)) < DigitVal(Head(b))
       ELSE LexLess(Tail(a), Tail(b))

MagLess(a, b) == Len(a) < Len(b) \/ (Len(a) = Len(b) /\ LexLess(a, b))

LLONG_MAX_MAG ==
  <<"9","2","2","3","3","7","2","0","3","6","8","5","4","7","7","5","8","0","7">>
LLONG_MIN_MAG ==
  <<"9","2","2","3","3","7","2","0","3","6","8","5","4","7","7","5","8","0","8">>

HasSign(s) == s # <<>> /\ Head(s) \in {"+", "-"}

\* strtoll(s, nullptr, 10): leading white space, optional sign, the longest
\* run of digits; no digits gives 0 and leaves errno alone; a value outside
\* long long is clamped and sets errno to ERANGE.
strtoll(str) ==
  LET s    == SkipSpace(str)
      neg  == s # <<>> /\ Head(s) = "-"
      body == IF HasSign(s) THEN Tail(s) ELSE s
      mag  == StripLeadingZeros(DigitPrefix(body))
      lim  == IF neg THEN LLONG_MIN_MAG ELSE LLONG_MAX_MAG
  IN  IF MagLess(lim, mag)
      THEN [value |-> PyInt(neg, lim), erange |-> TRUE]
      ELSE [value |-> PyInt(neg /\ mag # <<"0">>, mag), erange |-> FALSE]

postprocess_xml_str(value_xml) == PyStr(value_xml)

postprocess_xml_int(value_xml) ==
  LET r == strtoll(value_xml)
  IN  IF ~r.erange THEN r.value ELSE NULLPTR

\* Decimal exponent of a digit string, as an integer (at most 4 digits are
\* evaluated; longer exponents are far out of range either way).
RECURSIVE DigitsToNat(_, _)
DigitsToNat(d, acc) ==
  IF d = <<>> THEN acc
  ELSE IF acc >= 1000 THEN 9999
  ELSE DigitsToNat(Tail(d), acc * 10 + DigitVal(Head(d)))

RECURSIVE ShiftPoint(_, _, _)
\* move the decimal point of ip.fp by e places (right when e > 0)
ShiftPoint(ip, fp, e) ==
  IF e = 0 THEN <<ip, fp>>
  ELSE IF e > 0
       THEN ShiftPoint(Append(ip, IF fp = <<>> THEN "0" ELSE Head(fp)),
                       IF fp = <<>> THEN <<>> ELSE Tail(fp), e - 1)
       ELSE ShiftPoint(IF ip = <<>> THEN <<>> ELSE SubSeq(ip, 1, Len(ip) - 1),
                       <<IF ip = <<>> THEN "0" ELSE ip[Len(ip)]>> \o fp, e + 1)

\* the decimal exponents of the largest double and of the smallest
\* (subnormal) double above zero
DBL_MAX_10_EXP == 308
DBL_TRUE_MIN_10_EXP == -323

\* strtod(s, nullptr) on decimal numerals: white space, sign, digits with an
\* optional fraction and an optional exponent.  No digits gives 0.0 without
\* touching errno; overflow and underflow set errno to ERANGE.  The steps
\* of the scan follow one another, each handing on what it has read.
strtod_value(neg, sh) ==
  [value |-> PyFloat(neg, StripLeadingZeros(sh[1]), StripTrailingZeros(sh[2])),
   erange |-> FALSE]

\* top is the position of the leading digit: 10^(top-1) <= |x| < 10^top
strtod_range(neg, ip0, fp0, e, top) ==
  IF top > DBL_MAX_10_EXP + 1 \/ top < DBL_TRUE_MIN_10_EXP
  THEN [value |-> PyFloat(neg, <<"0">>, <<>>), erange |-> TRUE]
  ELSE strtod_value(neg, ShiftPoint(ip0, fp0, e))

strtod_scale(neg, ip0, fp0, e) ==
  IF ip0 = <<"0">> /\ fp0 = <<>>
  THEN [value |-> PyFloat(neg, <<"0">>, <<>>), erange |-> FALSE]
  ELSE strtod_range(neg, ip0, fp0, e,
                    (IF ip0 # <<"0">> THEN Len(ip0)
                     ELSE Len(StripLeadingZeros(fp0)) - Len(fp0)) + e)

strtod_exponent_value(eneg, edig) ==
  IF edig = <<>> THEN 0 ELSE (IF eneg THEN -1 ELSE 1) * DigitsToNat(edig, 0)

strtod_exponent_digits(r3) ==
  strtod_exponent_value(r3 # <<>> /\ Head(r3) = "-",
                        DigitPrefix(IF HasSign(r3) THEN Tail(r3) ELSE r3))

\* the exponent that follows the mantissa, 0 when there is none
strtod_exponent(r2) ==
  IF r2 # <<>> /\ Head(r2) \in {"e", "E"}
  THEN strtod_exponent_digits(Tail(r2)) ELSE 0

\* r1 follows the integer digits, fpRaw are the fraction digits after its point
strtod_mantissa(neg, ipRaw, fpRaw, r1) ==
  IF ipRaw = <<>> /\ fpRaw = <<>>
  THEN [value |-> PyFloat(FALSE, <<"0">>, <<>>), erange |-> FALSE]
  ELSE strtod_scale(neg, StripLeadingZeros(ipRaw), StripTrailingZeros(fpRaw),
                    strtod_exponent(IF r1 # <<>> /\ Head(r1) = "."
                                    THEN SubSeq(r1, Len(fpRaw) + 2, Len(r1))
                                    ELSE r1))

strtod_fraction(neg, ipRaw, r1) ==
  strtod_mantissa(neg, ipRaw,
                  IF r1 # <<>> /\ Head(r1) = "." THEN DigitPrefix(Tail(r1))
                  ELSE <<>>,
                  r1)

strtod_integer(neg, ipRaw, body) ==
  strtod_fraction(neg, ipRaw, SubSeq(body, Len(ipRaw) + 1, Len(body)))

strtod_sign(s) ==
  strtod_integer(s # <<>> /\ Head(s) = "-",
                 DigitPrefix(IF HasSign(s) THEN Tail(s) ELSE s),
                 IF HasSign(s) THEN Tail(s) ELSE s)

strtod(str) == strtod_sign(SkipSpace(str))

postprocess_xml_float(value_xml) ==
  LET r == strtod(value_xml)
  IN  IF ~r.erange THEN r.value ELSE NULLPTR

\* a variant that skips the white space around the word
postprocess_xml_bool_trimmed(value_xml) ==
  LET word == SelectSeq(value_xml, LAMBDA c : ~isspace(c))
  IN  IF word = <<"t", "r", "u", "e">> THEN PyBool(TRUE)
      ELSE IF word = <<"f", "a", "l", "s", "e">> THEN PyBool(FALSE)
      ELSE NULLPTR

postprocess_xml_bool(value_xml) ==
  IF value_xml = <<"t", "r", "u", "e">> THEN PyBool(TRUE)
  ELSE IF value_xml = <<"f", "a", "l", "s", "e">> THEN PyBool(FALSE)
  ELSE NULLPTR

xmlStrchr(str, c) == \E i \in 1..Len(str) : str[i] = c

postprocess_xml_version(value_xml) ==
  IF xmlStrchr(value_xml, ".") THEN postprocess_xml_float(value_xml)
  ELSE postprocess_xml_int(value_xml)

(***************************************************************************)
(* Timestamps.  A datetime keeps its date "YYYY-MM-DD", its time           *)
(* "hh:mm:ss", six microsecond digits and its tzinfo: "none" (naive),      *)
(* "utc" (the timezone.utc singleton) or "other".                          *)
(***************************************************************************)
AllDigits(s) == \A i \in 1..Len(s) : IsDigit(s[i])

InRange(d, lo, hi) ==
  AllDigits(d) /\ DigitsToNat(d, 0) >= lo /\ DigitsToNat(d, 0) <= hi

IsDateChars(d) ==
  /\ Len(d) = 10 /\ d[5] = "-" /\ d[8] = "-"
  /\ AllDigits(SubSeq(d, 1, 4))
  /\ InRange(SubSeq(d, 6, 7), 1, 12) /\ InRange(SubSeq(d, 9, 10), 1, 31)

IsTimeChars(c) ==
  /\ Len(c) = 8 /\ c[3] = ":" /\ c[6] = ":"
  /\ InRange(SubSeq(c, 1, 2), 0, 23)
  /\ InRange(SubSeq(c, 4, 5), 0, 59) /\ InRange(SubSeq(c, 7, 8), 0, 59)

RECURSIVE PadRight(_, _)
PadRight(d, n) == IF Len(d) >= n THEN SubSeq(d, 1, n) ELSE PadRight(Append(d, "0"), n)

ZeroTime == <<"0", "0", ":", "0", "0", ":", "0", "0">>
ZeroMicros == <<"0", "0", "0", "0", "0", "0">>

\* tzinfo named by the suffix of an ISO string, "bad" when it is none
TzOfSuffix(z) ==
  IF z = <<>> THEN "none"
  ELSE IF z = <<"Z">> THEN "utc"
  ELSE IF Len(z) = 6 /\ z[1] \in {"+", "-"} /\ z[4] = ":"
          /\ InRange(SubSeq(z, 2, 3), 0, 23) /\ InRange(SubSeq(z, 5, 6), 0, 59)
       THEN (IF SubSeq(z, 2, 3) = <<"0", "0">> /\ SubSeq(z, 5, 6) = <<"0", "0">>
             THEN "utc" ELSE "other")
  ELSE "bad"

\* datetime.fromisoformat on "YYYY-MM-DD" or "YYYY-MM-DD?hh:mm:ss[.f][tz]";
\* nullptr stands for the raised ValueError.
fromisoformat(s) ==
  IF Len(s) < 10 \/ ~IsDateChars(SubSeq(s, 1, 10)) THEN NULLPTR
  ELSE IF Len(s) = 10
       THEN PyDateTime("none", SubSeq(s, 1, 10), ZeroTime, ZeroMicros)
  ELSE IF Len(s) < 19 \/ ~IsTimeChars(SubSeq(s, 12, 19)) THEN NULLPTR
  ELSE LET rest  == SubSeq(s, 20, Len(s))
           hasF  == rest # <<>> /\ Head(rest) = "."
           frac  == IF hasF THEN DigitPrefix(Tail(rest)) ELSE <<>>
           zone  == IF hasF THEN SubSeq(rest, Len(frac) + 2, Len(rest)) ELSE rest
           tz    == TzOfSuffix(zone)
       IN  IF (hasF /\ frac = <<>>) \/ tz = "bad" THEN NULLPTR
           ELSE PyDateTime(tz, SubSeq(s, 1, 10), SubSeq(s, 12, 19),
                           PadRight(frac, 6))

\* app.lib.date_utils.parse_date on "YYYY-MM-DD hh:mm:ss" with an optional
\* " UTC" suffix: an aware UTC datetime; nullptr stands for the raised error.
parse_date(s) ==
  IF Len(s) < 19 \/ ~IsDateChars(SubSeq(s, 1, 10)) \/ s[11] # " "
     \/ ~IsTimeChars(SubSeq(s, 12, 19))
  THEN NULLPTR
  ELSE IF SubSeq(s, 20, Len(s)) \in {<<>>, <<" ", "U", "T", "C">>}
       THEN PyDateTime("utc", SubSeq(s, 1, 10), SubSeq(s, 12, 19), ZeroMicros)
       ELSE NULLPTR

\* the date scalarizer that calls fromisoformat for every value
postprocess_xml_date_iso(value_xml) == fromisoformat(value_xml)

postprocess_xml_date(value_xml) ==
  IF xmlStrchr(value_xml, " ") THEN parse_date(value_xml)
  ELSE fromisoformat(value_xml)

(***************************************************************************)
(* The coercion table and its lookup                                       *)
(***************************************************************************)
value_postprocessor_map ==
  << <<"changes_count", "int">>,   <<"changeset", "int">>,
     <<"closed_at", "date">>,      <<"comments_count", "int">>,
     <<"created_at", "date">>,     <<"date", "date">>,
     <<"ele", "float">>,           <<"id", "int">>,
     <<"lat", "float">>,           <<"lon", "float">>,
     <<"max_lat", "float">>,       <<"max_lon", "float">>,
     <<"min_lat", "float">>,       <<"min_lon", "float">>,
     <<"num_changes", "int">>,     <<"open", "bool">>,
     <<"pending", "bool">>,        <<"ref", "int">>,
     <<"time", "date">>,           <<"timestamp", "date">>,
     <<"uid", "int">>,             <<"updated_at", "date">>,
     <<"version", "version">>,     <<"visible", "bool">> >>

PostprocessorKeys ==
  [i \in 1..Len(value_postprocessor_map) |-> value_postprocessor_map[i][1]]

ApplyPostprocessor(func, value_xml) ==
  CASE func = "int"     -> postprocess_xml_int(value_xml)
    [] func = "float"   -> postprocess_xml_float(value_xml)
    [] func = "bool"    -> postprocess_xml_bool(value_xml)
    [] func = "date"    -> postprocess_xml_date(value_xml)
    [] func = "version" -> postprocess_xml_version(value_xml)

postprocess_value(key, value_xml) ==
  LET item == bsearch(key, PostprocessorKeys, 1, Len(PostprocessorKeys) + 1)
  IN  IF item # 0 THEN ApplyPostprocessor(value_postprocessor_map[item][2], value_xml)
      ELSE postprocess_xml_str(value_xml)

(***************************************************************************)
(* xml_parse: the frame stack and the body of the event loop.              *)
(* A parser state ps holds the locals of xml_parse:                        *)
(*   pc            "loop" inside the while loop, "exit" once a return      *)
(*                 statement has been reached, "ub" after undefined        *)
(*                 behaviour                                               *)
(*   stack         the frames, oldest first                                *)
(*   current_name, current_dict, current_list, result, err                 *)
(***************************************************************************)
NoError == [kind |-> "none", key |-> "", raw |-> <<>>]
Error(kind) == [kind |-> kind, key |-> "", raw |-> <<>>]
BadValue(key, raw) == [kind |-> "BadValue", key |-> key, raw |-> raw]

StackFrame(name, dict, list) == [name |-> name, dict |-> dict, list |-> list]

InitialParser ==
  [pc |-> "loop", stack |-> <<>>, current_name |-> NULLPTR,
   current_dict |-> NULLPTR, current_list |-> NULLPTR,
   result |-> NULLPTR, err |-> NoError]

\* return nullptr with the error set
ReturnError(ps, e) == [ps EXCEPT !.pc = "exit", !.err = e]

\* stack_push with the capacity test off by one
stack_push_late(stack, name, dict, list) ==
  IF Len(stack) > STACK_SIZE
  THEN [ok |-> FALSE, stack |-> stack]
  ELSE [ok |-> TRUE, stack |-> Append(stack, StackFrame(name, dict, list))]

\* stack_push: refuses the frame when STACK_SIZE frames are held
stack_push(stack, name, dict, list) ==
  IF Len(stack) >= STACK_SIZE
  THEN [ok |-> FALSE, stack |-> stack]
  ELSE [ok |-> TRUE, stack |-> Append(stack, StackFrame(name, dict, list))]

\* the pop that hands out the newest frame and leaves it on the stack
stack_pop_peek(stack) ==
  IF Len(stack) = 0
  THEN [ok |-> FALSE, stack |-> stack, frame |-> StackFrame(NULLPTR, NULLPTR, NULLPTR)]
  ELSE [ok |-> TRUE, stack |-> stack, frame |-> stack[Len(stack)]]

\* stack_pop: the newest frame and the stack without it
stack_pop(stack) ==
  IF Len(stack) = 0
  THEN [ok |-> FALSE, stack |-> stack, frame |-> StackFrame(NULLPTR, NULLPTR, NULLPTR)]
  ELSE [ok |-> TRUE, stack |-> SubSeq(stack, 1, Len(stack) - 1),
        frame |-> stack[Len(stack)]]

\* the cleanup that releases the newest frame only
stack_cleanup_once(stack) ==
  IF Len(stack) = 0 THEN [stack |-> stack, released |-> <<>>]
  ELSE [stack |-> SubSeq(stack, 1, Len(stack) - 1),
        released |-> <<stack[Len(stack)]>>]

RECURSIVE stack_cleanup(_)
\* stack_cleanup: the stack after the loop, and the frames whose name, dict
\* and list it has released, newest first
stack_cleanup(stack) ==
  IF Len(stack) = 0 THEN [stack |-> stack, released |-> <<>>]
  ELSE LET rest == stack_cleanup(SubSeq(stack, 1, Len(stack) - 1))
       IN  [stack |-> rest.stack,
            released |-> <<stack[Len(stack)]>> \o rest.released]

\* the element case that pushes a frame for the root as well
element_case_root_pushed(ps, local_name) ==
  LET push == stack_push(ps.stack, ps.current_name, ps.current_dict,
                         ps.current_list)
  IN  IF ~push.ok
      THEN ReturnError(ps, Error("NestingTooDeep"))
      ELSE [ps EXCEPT
              !.stack = push.stack,
              !.current_name = TagKey(local_name),
              !.current_dict = PyNone,
              !.current_list = PyNone]

\* case XML_READER_TYPE_ELEMENT
element_case(ps, local_name) ==
  LET push == stack_push(ps.stack, ps.current_name, ps.current_dict,
                         ps.current_list)
  IN  IF ps.current_dict # NULLPTR /\ ~push.ok
      THEN ReturnError(ps, Error("NestingTooDeep"))
      ELSE [ps EXCEPT
              !.stack = IF ps.current_dict # NULLPTR THEN push.stack ELSE @,
              !.current_name = TagKey(local_name),
              !.current_dict = PyNone,
              !.current_list = PyNone]

\* the value handed to the parent when every dict of one entry is unwrapped,
\* whatever its key
current_result_of_single(current_dict, current_list) ==
  IF current_dict = PyNone /\ current_list = PyNone THEN NULLPTR
  ELSE IF current_list = PyNone
       THEN IF PyDict_GET_SIZE(current_dict) = 1
            THEN current_dict.e[1][2] ELSE current_dict
  ELSE IF current_dict = PyNone THEN current_list
  ELSE PyList(current_list.e \o PyDict_Items(current_dict))

\* the value handed to the parent with the items of the dict put before the
\* tuples of the list
current_result_of_items_first(current_dict, current_list) ==
  IF current_dict = PyNone /\ current_list = PyNone THEN NULLPTR
  ELSE IF current_list = PyNone
       THEN LET text == IF PyDict_GET_SIZE(current_dict) = 1
                        THEN PyDict_GetItem(current_dict, text_key)
                        ELSE NULLPTR
            IN  IF text # NULLPTR THEN text ELSE current_dict
  ELSE IF current_dict = PyNone THEN current_list
  ELSE PyList(PyDict_Items(current_dict) \o current_list.e)

\* the value handed to the parent with the entries of the dict left out when
\* the element has a list
current_result_of_list_only(current_dict, current_list) ==
  IF current_dict = PyNone /\ current_list = PyNone THEN NULLPTR
  ELSE IF current_list = PyNone
       THEN LET text == IF PyDict_GET_SIZE(current_dict) = 1
                        THEN PyDict_GetItem(current_dict, text_key)
                        ELSE NULLPTR
            IN  IF text # NULLPTR THEN text ELSE current_dict
  ELSE current_list

\* the value an element hands to its parent when it closes
current_result_of(current_dict, current_list) ==
  IF current_dict = PyNone /\ current_list = PyNone THEN NULLPTR
  ELSE IF current_list = PyNone
       THEN LET text == IF PyDict_GET_SIZE(current_dict) = 1
                        THEN PyDict_GetItem(current_dict, text_key)
                        ELSE NULLPTR
            IN  IF text # NULLPTR THEN text ELSE current_dict
  ELSE IF current_dict = PyNone THEN current_list
  ELSE PyList(current_list.e \o PyDict_Items(current_dict))

\* the merge without the force_list wrapping of a first occurrence
merge_into_parent_unwrapped(cname, current_result, pdict, plist) ==
  IF current_result = NULLPTR THEN [dict |-> pdict, list |-> plist]
  ELSE IF in_set(cname[2], force_items_set)
       THEN [dict |-> pdict,
             list |-> PyList(Append(IF plist = PyNone THEN <<>> ELSE plist.e,
                                    PyTuple(<<PyKey(cname), current_result>>)))]
  ELSE LET existing_result == IF pdict # PyNone
                              THEN PyDict_GetItem(pdict, cname) ELSE NULLPTR
       IN  IF existing_result # NULLPTR
           THEN IF existing_result.t = "List"
                THEN [dict |-> PyDict_SetItem(pdict, cname,
                                 PyList(Append(existing_result.e, current_result))),
                      list |-> plist]
                ELSE [dict |-> PyDict_SetItem(pdict, cname,
                                 PyList(<<existing_result, current_result>>)),
                      list |-> plist]
           ELSE LET d == IF pdict = PyNone THEN PyDict(<<>>) ELSE pdict
                IN  [dict |-> PyDict_SetItem(d, cname, current_result),
                     list |-> plist]

\* the merge without the items mode: a force_items child takes a dict slot
merge_into_parent_keyed(cname, current_result, pdict, plist) ==
  IF current_result = NULLPTR THEN [dict |-> pdict, list |-> plist]
  ELSE LET existing_result == IF pdict # PyNone
                              THEN PyDict_GetItem(pdict, cname) ELSE NULLPTR
       IN  IF existing_result # NULLPTR
           THEN IF existing_result.t = "List"
                THEN [dict |-> PyDict_SetItem(pdict, cname,
                                 PyList(Append(existing_result.e, current_result))),
                      list |-> plist]
                ELSE [dict |-> PyDict_SetItem(pdict, cname,
                                 PyList(<<existing_result, current_result>>)),
                      list |-> plist]
           ELSE LET d == IF pdict = PyNone THEN PyDict(<<>>) ELSE pdict
                    v == IF in_set(cname[2], force_list_set)
                         THEN PyList(<<current_result>>) ELSE current_result
                IN  [dict |-> PyDict_SetItem(d, cname, v), list |-> plist]

\* the merge that wraps the first result of every name in a list
merge_into_parent_listed(cname, current_result, pdict, plist) ==
  IF current_result = NULLPTR THEN [dict |-> pdict, list |-> plist]
  ELSE IF in_set(cname[2], force_items_set)
       THEN [dict |-> pdict,
             list |-> PyList(Append(IF plist = PyNone THEN <<>> ELSE plist.e,
                                    PyTuple(<<PyKey(cname), current_result>>)))]
  ELSE LET existing_result == IF pdict # PyNone
                              THEN PyDict_GetItem(pdict, cname) ELSE NULLPTR
       IN  IF existing_result # NULLPTR
           THEN IF existing_result.t = "List"
                THEN [dict |-> PyDict_SetItem(pdict, cname,
                                 PyList(Append(existing_result.e, current_result))),
                      list |-> plist]
                ELSE [dict |-> PyDict_SetItem(pdict, cname,
                                 PyList(<<existing_result, current_result>>)),
                      list |-> plist]
           ELSE LET d == IF pdict = PyNone THEN PyDict(<<>>) ELSE pdict
                IN  [dict |-> PyDict_SetItem(d, cname, PyList(<<current_result>>)),
                     list |-> plist]

\* the merge that gives a force_items child without a result a tuple of
\* its own, with None as its value
merge_into_parent_empty_tuple(cname, current_result, pdict, plist) ==
  IF current_result = NULLPTR
  THEN IF in_set(cname[2], force_items_set)
       THEN [dict |-> pdict,
             list |-> PyList(Append(IF plist = PyNone THEN <<>> ELSE plist.e,
                                    PyTuple(<<PyKey(cname), PyNone>>)))]
       ELSE [dict |-> pdict, list |-> plist]
  ELSE IF in_set(cname[2], force_items_set)
       THEN [dict |-> pdict,
             list |-> PyList(Append(IF plist = PyNone THEN <<>> ELSE plist.e,
                                    PyTuple(<<PyKey(cname), current_result>>)))]
  ELSE LET existing_result == IF pdict # PyNone
                              THEN PyDict_GetItem(pdict, cname) ELSE NULLPTR
       IN  IF existing_result # NULLPTR
           THEN IF existing_result.t = "List"
                THEN [dict |-> PyDict_SetItem(pdict, cname,
                                 PyList(Append(existing_result.e, current_result))),
                      list |-> plist]
                ELSE [dict |-> PyDict_SetItem(pdict, cname,
                                 PyList(<<existing_result, current_result>>)),
                      list |-> plist]
           ELSE LET d == IF pdict = PyNone THEN PyDict(<<>>) ELSE pdict
                    v == IF in_set(cname[2], force_list_set)
                         THEN PyList(<<current_result>>) ELSE current_result
                IN  [dict |-> PyDict_SetItem(d, cname, v), list |-> plist]

\* the merge that wraps every result of a force_list name, the later ones
\* as well as the first
merge_into_parent_rewrapped(cname, current_result, pdict, plist) ==
  IF current_result = NULLPTR THEN [dict |-> pdict, list |-> plist]
  ELSE IF in_set(cname[2], force_items_set)
       THEN [dict |-> pdict,
             list |-> PyList(Append(IF plist = PyNone THEN <<>> ELSE plist.e,
                                    PyTuple(<<PyKey(cname), current_result>>)))]
  ELSE LET existing_result == IF pdict # PyNone
                              THEN PyDict_GetItem(pdict, cname) ELSE NULLPTR
           v == IF in_set(cname[2], force_list_set)
                THEN PyList(<<current_result>>) ELSE current_result
       IN  IF existing_result # NULLPTR
           THEN IF existing_result.t = "List"
                THEN [dict |-> PyDict_SetItem(pdict, cname,
                                 PyList(Append(existing_result.e, v))),
                      list |-> plist]
                ELSE [dict |-> PyDict_SetItem(pdict, cname,
                                 PyList(<<existing_result, v>>)),
                      list |-> plist]
           ELSE LET d == IF pdict = PyNone THEN PyDict(<<>>) ELSE pdict
                IN  [dict |-> PyDict_SetItem(d, cname, v), list |-> plist]

\* merging a child's result into the popped parent frame: the parent's
\* dict and list after the merge
merge_into_parent(cname, current_result, pdict, plist) ==
  IF current_result = NULLPTR THEN [dict |-> pdict, list |-> plist]
  ELSE IF in_set(cname[2], force_items_set)
       THEN [dict |-> pdict,
             list |-> PyList(Append(IF plist = PyNone THEN <<>> ELSE plist.e,
                                    PyTuple(<<PyKey(cname), current_result>>)))]
  ELSE LET existing_result == IF pdict # PyNone
                              THEN PyDict_GetItem(pdict, cname) ELSE NULLPTR
       IN  IF existing_result # NULLPTR
           THEN IF existing_result.t = "List"
                THEN [dict |-> PyDict_SetItem(pdict, cname,
                                 PyList(Append(existing_result.e, current_result))),
                      list |-> plist]
                ELSE [dict |-> PyDict_SetItem(pdict, cname,
                                 PyList(<<existing_result, current_result>>)),
                      list |-> plist]
           ELSE LET d == IF pdict = PyNone THEN PyDict(<<>>) ELSE pdict
                    v == IF in_set(cname[2], force_list_set)
                         THEN PyList(<<current_result>>) ELSE current_result
                IN  [dict |-> PyDict_SetItem(d, cname, v), list |-> plist]

\* the close that returns the root's result itself, without the wrapping dict
end_element_case_unwrapped(ps) ==
  LET current_result == current_result_of(ps.current_dict, ps.current_list)
      pop == stack_pop(ps.stack)
      m   == merge_into_parent(ps.current_name, current_result,
                               pop.frame.dict, pop.frame.list)
  IN  IF Len(ps.stack) # 0
      THEN [ps EXCEPT !.stack = pop.stack,
                      !.current_name = pop.frame.name,
                      !.current_dict = m.dict,
                      !.current_list = m.list]
      ELSE IF current_result = NULLPTR
           THEN [ps EXCEPT !.pc = "ub"]
           ELSE [ps EXCEPT !.pc = "exit",
                           !.current_dict = IF @ = PyNone THEN @ ELSE NULLPTR,
                           !.current_list = IF @ = PyNone THEN @ ELSE NULLPTR,
                           !.result = current_result]

\* the close that takes the document to end one frame early
end_element_case_early(ps) ==
  LET current_result == current_result_of(ps.current_dict, ps.current_list)
      pop == stack_pop(ps.stack)
      m   == merge_into_parent(ps.current_name, current_result,
                               pop.frame.dict, pop.frame.list)
  IN  IF Len(ps.stack) > 1
      THEN [ps EXCEPT !.stack = pop.stack,
                      !.current_name = pop.frame.name,
                      !.current_dict = m.dict,
                      !.current_list = m.list]
      ELSE IF current_result = NULLPTR
           THEN [ps EXCEPT !.pc = "ub"]
           ELSE [ps EXCEPT !.pc = "exit",
                           !.current_dict = IF @ = PyNone THEN @ ELSE NULLPTR,
                           !.current_list = IF @ = PyNone THEN @ ELSE NULLPTR,
                           !.result = PyDict(<< <<ps.current_name, current_result>> >>)]

\* the close that leaves the name of the child in current_name
end_element_case_keeping_name(ps) ==
  LET current_result == current_result_of(ps.current_dict, ps.current_list)
      pop == stack_pop(ps.stack)
      m   == merge_into_parent(ps.current_name, current_result,
                               pop.frame.dict, pop.frame.list)
  IN  IF Len(ps.stack) # 0
      THEN [ps EXCEPT !.stack = pop.stack,
                      !.current_dict = m.dict,
                      !.current_list = m.list]
      ELSE IF current_result = NULLPTR
           \* PyDict_SetItem(result, current_name, nullptr)
           THEN [ps EXCEPT !.pc = "ub"]
           ELSE [ps EXCEPT !.pc = "exit",
                           !.current_dict = IF @ = PyNone THEN @ ELSE NULLPTR,
                           !.current_list = IF @ = PyNone THEN @ ELSE NULLPTR,
                           !.result = PyDict(<< <<ps.current_name, current_result>> >>)]

\* case XML_READER_TYPE_END_ELEMENT
end_element_case(ps) ==
  LET current_result == current_result_of(ps.current_dict, ps.current_list)
      pop == stack_pop(ps.stack)
      m   == merge_into_parent(ps.current_name, current_result,
                               pop.frame.dict, pop.frame.list)
  IN  IF Len(ps.stack) # 0
      THEN [ps EXCEPT !.stack = pop.stack,
                      !.current_name = pop.frame.name,
                      !.current_dict = m.dict,
                      !.current_list = m.list]
      ELSE IF current_result = NULLPTR
           \* PyDict_SetItem(result, current_name, nullptr)
           THEN [ps EXCEPT !.pc = "ub"]
           ELSE [ps EXCEPT !.pc = "exit",
                           !.current_dict = IF @ = PyNone THEN @ ELSE NULLPTR,
                           !.current_list = IF @ = PyNone THEN @ ELSE NULLPTR,
                           !.result = PyDict(<< <<ps.current_name, current_result>> >>)]

\* the text case that appends to the text the element already has
attribute_text_case_appending(ps, node_type, local_name, value_xml) ==
  LET d == IF ps.current_dict = PyNone THEN PyDict(<<>>) ELSE ps.current_dict
      postprocess_key == IF node_type = "ATTRIBUTE" THEN local_name
                         ELSE ps.current_name[2]
      value == postprocess_value(postprocess_key, value_xml)
      set_key == IF node_type = "ATTRIBUTE" THEN <<"@", postprocess_key>>
                 ELSE text_key
      old == PyDict_GetItem(d, set_key)
  IN  IF value = NULLPTR
      THEN ReturnError([ps EXCEPT !.current_dict = d],
                       BadValue(postprocess_key, value_xml))
      ELSE IF old # NULLPTR /\ old.t = "Str" /\ value.t = "Str"
           THEN [ps EXCEPT !.current_dict =
                             PyDict_SetItem(d, set_key, PyStr(old.s \o value.s))]
           ELSE [ps EXCEPT !.current_dict = PyDict_SetItem(d, set_key, value)]

\* case XML_READER_TYPE_ATTRIBUTE and case XML_READER_TYPE_TEXT
attribute_text_case(ps, node_type, local_name, value_xml) ==
  LET d == IF ps.current_dict = PyNone THEN PyDict(<<>>) ELSE ps.current_dict
      postprocess_key == IF node_type = "ATTRIBUTE" THEN local_name
                         ELSE ps.current_name[2]
      value == postprocess_value(postprocess_key, value_xml)
      set_key == IF node_type = "ATTRIBUTE" THEN <<"@", postprocess_key>>
                 ELSE text_key
  IN  IF value = NULLPTR
      THEN ReturnError([ps EXCEPT !.current_dict = d],
                       BadValue(postprocess_key, value_xml))
      ELSE [ps EXCEPT !.current_dict = PyDict_SetItem(d, set_key, value)]

\* the switch on node_type
switch_node_type(ps, cur) ==
  CASE cur.type = "ELEMENT"     -> element_case(ps, cur.name)
    [] cur.type = "END_ELEMENT" -> end_element_case(ps)
    [] cur.type \in {"ATTRIBUTE", "TEXT"} ->
         attribute_text_case(ps, cur.type, cur.name, cur.value)
    [] OTHER -> ps

\* the end of the loop without the test of parse_ret for a tokenizer error
after_loop_lenient(ps, parse_ret) ==
  IF Len(ps.stack) # 0 \/ (ps.result = NULLPTR /\ ps.current_dict # NULLPTR)
  THEN ReturnError(ps, Error("StackNotEmpty"))
  ELSE IF ps.result = NULLPTR THEN ReturnError(ps, Error("EmptyDocument"))
  ELSE [ps EXCEPT !.pc = "exit"]

\* after the loop: parse_ret is 0 (end of input) or negative (error)
after_loop(ps, parse_ret) ==
  IF parse_ret < 0 THEN ReturnError(ps, Error("Malformed"))
  ELSE IF Len(ps.stack) # 0 \/ (ps.result = NULLPTR /\ ps.current_dict # NULLPTR)
       THEN ReturnError(ps, Error("StackNotEmpty"))
  ELSE IF ps.result = NULLPTR THEN ReturnError(ps, Error("EmptyDocument"))
  ELSE [ps EXCEPT !.pc = "exit"]

(***************************************************************************)
(* Typed element ids (src/speedup/element_type.c).  A 64-bit word is five  *)
(* limbs of 14 bits, lowest first: the four low limbs are the 56 id bits,  *)
(* the fifth holds bits 56 and up, so that the sign bit 59 is its bit 3    *)
(* and the type bits 60-61 are its bits 4-5.  A Python int and an int64_t  *)
(* are a sign and a magnitude; the magnitude of a Python int may pass 64   *)
(* bits.  A str is a sequence of one-character strings.                    *)
(***************************************************************************)
Limb == 2^14
LimbMax == Limb - 1
\* the fifth limb of a 64-bit word is below 2^8, of an int64_t below 2^7
TopU64 == 2^8
TopI64 == 2^7

Word(l1, l2, l3, l4, top) == <<l1, l2, l3, l4, top>>
Long(neg, mag) == [neg |-> neg, mag |-> mag]
WordZero == Word(0, 0, 0, 0, 0)
LLONG_MAX == Long(FALSE, Word(LimbMax, LimbMax, LimbMax, LimbMax, TopI64 - 1))
LLONG_MIN == Long(TRUE, Word(0, 0, 0, 0, TopI64))

RECURSIVE BitOr(_, _)
BitOr(a, b) ==
  IF a = 0 THEN b
  ELSE IF b = 0 THEN a
  ELSE (IF a % 2 = 1 \/ b % 2 = 1 THEN 1 ELSE 0) + 2 * BitOr(a \div 2, b \div 2)

RECURSIVE BitAnd(_, _)
BitAnd(a, b) ==
  IF a = 0 \/ b = 0 THEN 0
  ELSE (IF a % 2 = 1 /\ b % 2 = 1 THEN 1 ELSE 0) + 2 * BitAnd(a \div 2, b \div 2)

\* 1ULL << 59, 3 << 60 and the left shift by 60, as values of the fifth limb
SIGN_MASK == 2^(59 - 56)
TYPE_MASK == 3 * 2^(60 - 56)
TypeBits(type_num) == type_num * 2^(60 - 56)

\* the int64_t a Python int converts to, and whether it was out of range
PyLong_AsLongLongAndOverflow(v) ==
  IF v.neg
  THEN IF v.mag[5] < TopI64 \/ v.mag = LLONG_MIN.mag
       THEN [value |-> v, overflow |-> 0]
       ELSE [value |-> Long(TRUE, Word(1, 0, 0, 0, 0)), overflow |-> -1]
  ELSE IF v.mag[5] < TopI64
       THEN [value |-> v, overflow |-> 0]
       ELSE [value |-> Long(TRUE, Word(1, 0, 0, 0, 0)), overflow |-> 1]

\* (uint64_t) of an int64_t: the two's complement of a negative value
AsUint64(v) ==
  IF ~v.neg THEN v.mag
  ELSE LET c1 == (LimbMax - v.mag[1]) + 1
           c2 == (LimbMax - v.mag[2]) + (c1 \div Limb)
           c3 == (LimbMax - v.mag[3]) + (c2 \div Limb)
           c4 == (LimbMax - v.mag[4]) + (c3 \div Limb)
           c5 == (TopU64 - 1 - (v.mag[5] % TopU64)) + (c4 \div Limb)
       IN  Word(c1 % Limb, c2 % Limb, c3 % Limb, c4 % Limb, c5 % TopU64)

node_str == <<"n", "o", "d", "e">>
way_str == <<"w", "a", "y">>
relation_str == <<"r", "e", "l", "a", "t", "i", "o", "n">>
NODE_TYPE_NUM == 0
WAY_TYPE_NUM == 1
RELATION_TYPE_NUM == 2

\* str[i] of a C string, 1-based: the terminating NUL after the last char
CharAt(str, i) == IF i <= Len(str) THEN str[i] ELSE "NUL"

Gives(value) == [status |-> "ok", value |-> value, err |-> "none"]
Raises(kind) == [status |-> "error", value |-> NULLPTR, err |-> kind]
Undefined == [status |-> "ub", value |-> NULLPTR, err |-> "none"]

\* result | (type_num << 60), as the Python int made of it
TypedWord(result, type_num) ==
  Long(FALSE, [result EXCEPT ![5] = BitOr(@, TypeBits(type_num))])

\* the encoding that leaves the sign bit out
typed_element_id_impl_unsigned(type, id) ==
  IF id.mag[5] # 0 THEN Raises("OverflowError")
  ELSE IF type = node_str THEN Gives(TypedWord(id.mag, NODE_TYPE_NUM))
  ELSE IF type = way_str THEN Gives(TypedWord(id.mag, WAY_TYPE_NUM))
  ELSE IF type = relation_str THEN Gives(TypedWord(id.mag, RELATION_TYPE_NUM))
  ELSE Raises("NotImplementedError")

typed_element_id_impl(type, id) ==
  LET result == IF id.neg
                THEN [id.mag EXCEPT ![5] = BitOr(@, SIGN_MASK)]
                ELSE id.mag
  IN  \* id <= -(1LL << 56), id >= (1LL << 56)
      IF id.mag[5] # 0 THEN Raises("OverflowError")
      ELSE IF type = node_str THEN Gives(TypedWord(result, NODE_TYPE_NUM))
      ELSE IF type = way_str THEN Gives(TypedWord(result, WAY_TYPE_NUM))
      ELSE IF type = relation_str
           THEN Gives(TypedWord(result, RELATION_TYPE_NUM))
      ELSE CASE CharAt(type, 1) = "n" -> Gives(TypedWord(result, NODE_TYPE_NUM))
             [] CharAt(type, 1) = "w" -> Gives(TypedWord(result, WAY_TYPE_NUM))
             [] CharAt(type, 1) = "r" ->
                  Gives(TypedWord(result, RELATION_TYPE_NUM))
             [] OTHER -> Raises("NotImplementedError")

typed_element_id(type, id_obj) ==
  LET c == PyLong_AsLongLongAndOverflow(id_obj)
      id == IF c.overflow = 0 THEN c.value
            ELSE IF c.overflow = 1 THEN LLONG_MAX ELSE LLONG_MIN
  IN  typed_element_id_impl(type, id)

split_typed_element_id_impl(id_obj) ==
  LET c == PyLong_AsLongLongAndOverflow(id_obj)
      id == AsUint64(IF c.overflow = 0 THEN c.value
                     ELSE IF c.overflow = 1 THEN LLONG_MAX ELSE LLONG_MIN)
      low == [id EXCEPT ![5] = 0]
      element_id_py == Long(BitAnd(id[5], SIGN_MASK) # 0 /\ low # WordZero, low)
      type_num == BitAnd(id[5], TYPE_MASK) \div TypeBits(1)
  IN  CASE type_num = NODE_TYPE_NUM -> Gives(<<node_str, element_id_py>>)
        [] type_num = WAY_TYPE_NUM -> Gives(<<way_str, element_id_py>>)
        [] type_num = RELATION_TYPE_NUM ->
             Gives(<<relation_str, element_id_py>>)
        [] OTHER -> Raises("NotImplementedError")

\* acc * 10 + d
TimesTenPlus(w, d) ==
  LET c1 == w[1] * 10 + d
      c2 == w[2] * 10 + (c1 \div Limb)
      c3 == w[3] * 10 + (c2 \div Limb)
      c4 == w[4] * 10 + (c3 \div Limb)
      c5 == w[5] * 10 + (c4 \div Limb)
  IN  Word(c1 % Limb, c2 % Limb, c3 % Limb, c4 % Limb, c5)

RECURSIVE SkipSpaceAt(_, _)
SkipSpaceAt(str, i) ==
  IF isspace(CharAt(str, i)) THEN SkipSpaceAt(str, i + 1) ELSE i

RECURSIVE ReadDigits(_, _, _)
\* the run of digits from str[i] on; a magnitude that has passed 2^69 is far
\* out of the range of long long and is kept there
ReadDigits(str, i, acc) ==
  IF IsDigit(CharAt(str, i))
  THEN LET next == TimesTenPlus(acc, DigitVal(str[i]))
       IN  IF next[5] >= Limb \div 2
           THEN ReadDigits(str, i + 1, [next EXCEPT ![5] = Limb \div 2])
           ELSE ReadDigits(str, i + 1, next)
  ELSE [end |-> i, mag |-> acc]

\* strtoll(str + start - 1, &end_ptr, 10): the value, the index end_ptr
\* points to, and errno
strtoll_endptr(str, start) ==
  LET s0 == SkipSpaceAt(str, start)
      neg == CharAt(str, s0) = "-"
      s1 == IF CharAt(str, s0) \in {"-", "+"} THEN s0 + 1 ELSE s0
      d == ReadDigits(str, s1, WordZero)
      v == PyLong_AsLongLongAndOverflow(Long(neg, d.mag))
  IN  IF d.end = s1
      THEN [value |-> Long(FALSE, WordZero), end |-> start, errno |-> "none"]
      ELSE IF v.overflow # 0
           THEN [value |-> IF neg THEN LLONG_MIN ELSE LLONG_MAX, end |-> d.end,
                 errno |-> "ERANGE"]
      ELSE [value |-> Long(neg /\ d.mag # WordZero, d.mag), end |-> d.end,
            errno |-> "none"]

\* the size a reference may have: two numbers of 20 chars, the v and a sign
MaxRefSize == (20 * 2) + 2

versioned_typed_element_id(type, ref) ==
  LET first == strtoll_endptr(ref, 1)
      id == first.value
      second == strtoll_endptr(ref, first.end + 1)
      version == second.value
      typed_id == typed_element_id_impl(type, id)
  IN  IF Len(ref) = 0 \/ Len(ref) > MaxRefSize
      THEN Raises("InvalidReference")
      ELSE IF first.end = 1 \/ CharAt(ref, first.end) # "v" \/ first.errno # "none"
      THEN Raises("InvalidReference")
      ELSE IF id.mag = WordZero THEN Raises("ZeroId")
      ELSE IF second.end = 1 \/ CharAt(ref, second.end) # "NUL"
                \/ second.errno # "none"
      THEN Raises("InvalidReference")
      ELSE IF version.neg \/ version.mag = WordZero THEN Raises("BadVersion")
      \* PyTuple_Pack(2, typed_id, version_py)
      ELSE IF typed_id.status # "ok" THEN Undefined
      ELSE Gives(<<typed_id.value, version>>)

NoCall ==
  [fn |-> "none", type |-> <<>>, id |-> Long(FALSE, WordZero), ref |-> <<>>,
   ret |-> Raises("none"), back |-> Raises("none")]

(***************************************************************************)
(* Buffered random bytes (src/speedup/buffered_rand.c).  The content of    *)
(* buffer is not modelled; the model keeps what became of the byte in each *)
(* slot: fresh (written by getrandom and not yet returned), handed         *)
(* (returned by one call), reused (returned by more than one call, or      *)
(* returned without having been written).                                  *)
(***************************************************************************)
BUFFER_SIZE == 256
RAND_SIZE == 16
SUFFIX_MAX_SIZE == 15

Slots == 0..(BUFFER_SIZE - 1)

NoRandCall ==
  [fn |-> "none", n |-> 0, status |-> "none", err |-> "none", from |-> 0,
   len |-> 0]

InitialRand ==
  [buffer_pos |-> 0, buffer_valid |-> 0, fresh |-> {}, handed |-> {},
   reused |-> {}, last |-> NoRandCall]

\* what getrandom(buf, buflen, 0) can return: an error, all of buflen, or
\* part of it; a refill is followed through at most MaxShortReads reads
\* that return part
MaxShortReads == 2
ShortReads == {3, 20}
getrandom(buflen, short_reads) ==
  {-1, buflen}
    \cup {a \in ShortReads : a < buflen /\ short_reads < MaxShortReads}

\* getrandom has written bytes_read bytes at buffer + total_read
Written(st, total_read, bytes_read) ==
  LET range == total_read..(total_read + bytes_read - 1)
  IN  [st EXCEPT !.fresh = @ \cup range,
                 !.handed = @ \ range,
                 !.reused = @ \ range]

RECURSIVE Refill(_, _, _, _)
\* the while loop of ensure_buffer and what follows it
Refill(st, needed, total_read, short_reads) ==
  IF total_read >= needed
  THEN {[ok |-> TRUE, err |-> "none",
         st |-> [st EXCEPT !.buffer_pos = 0, !.buffer_valid = total_read]]}
  ELSE UNION { IF bytes_read < 0
               THEN {[ok |-> FALSE, err |-> "OSError", st |-> st]}
               ELSE Refill(Written(st, total_read, bytes_read), needed,
                           total_read + bytes_read,
                           IF bytes_read < BUFFER_SIZE - total_read
                           THEN short_reads + 1 ELSE short_reads) :
               bytes_read \in getrandom(BUFFER_SIZE - total_read, short_reads) }

\* the refill that keeps buffer_pos where it was
ensure_buffer_keeping_pos(st, needed) ==
  IF st.buffer_pos <= st.buffer_valid
       /\ st.buffer_valid - st.buffer_pos >= needed
  THEN {[ok |-> TRUE, err |-> "none", st |-> st]}
  ELSE IF needed > BUFFER_SIZE
       THEN {[ok |-> FALSE, err |-> "ValueError", st |-> st]}
  ELSE { [o EXCEPT !.st.buffer_pos = st.buffer_pos] : o \in Refill(st, needed, 0, 0) }

\* ensure_buffer: the outcomes of the call.  buffer_valid - buffer_pos is
\* a difference of size_t values and wraps to a huge value when
\* buffer_pos > buffer_valid
ensure_buffer(st, needed) ==
  IF st.buffer_pos > st.buffer_valid
       \/ st.buffer_valid - st.buffer_pos >= needed
  THEN {[ok |-> TRUE, err |-> "none", st |-> st]}
  ELSE IF needed > BUFFER_SIZE
       THEN {[ok |-> FALSE, err |-> "ValueError", st |-> st]}
  ELSE Refill(st, needed, 0, 0)

\* the n bytes at buffer + buffer_pos are copied or encoded, and
\* buffer_pos += n
consume(st, n) ==
  LET range == st.buffer_pos..(st.buffer_pos + n - 1)
  IN  [st EXCEPT !.fresh = @ \ range,
                 !.handed = @ \cup (range \cap st.fresh),
                 !.reused = @ \cup (range \ st.fresh),
                 !.buffer_pos = @ + n]

\* the length encode_base64url returns for src_len bytes
encode_base64url(src_len) ==
  4 * (src_len \div 3)
    + (IF src_len % 3 = 1 THEN 2 ELSE IF src_len % 3 = 2 THEN 3 ELSE 0)

RandCall(fn, n, status, err, from, len) ==
  [fn |-> fn, n |-> n, status |-> status, err |-> err, from |-> from,
   len |-> len]

\* the bytes are consumed; the object that is returned may fail to be
\* allocated after that.  n is the argument, taken the number of bytes
\* consumed, len the length of what is returned
Served(st, fn, n, taken, len) ==
  {[consume(st, taken) EXCEPT !.last =
      RandCall(fn, n, "ok", "none", st.buffer_pos, len)],
   [consume(st, taken) EXCEPT !.last =
      RandCall(fn, n, "error", "MemoryError", st.buffer_pos, 0)]}

Failed(st, fn, n, err) ==
  {[st EXCEPT !.last = RandCall(fn, n, "error", err, st.buffer_pos, 0)]}

\* n is the Python int of the argument; PyLong_AsSize_t refuses a negative one
buffered_randbytes(st, n) ==
  IF n < 0 THEN Failed(st, "buffered_randbytes", n, "OverflowError")
  ELSE UNION { IF ~e.ok THEN Failed(e.st, "buffered_randbytes", n, e.err)
               ELSE Served(e.st, "buffered_randbytes", n, n, n) :
               e \in ensure_buffer(st, n) }

buffered_rand_urlsafe(st, n) ==
  IF n < 0 THEN Failed(st, "buffered_rand_urlsafe", n, "OverflowError")
  ELSE UNION { IF ~e.ok THEN Failed(e.st, "buffered_rand_urlsafe", n, e.err)
               ELSE Served(e.st, "buffered_rand_urlsafe", n, n,
                           encode_base64url(n)) :
               e \in ensure_buffer(st, n) }

\* suffix_len is the length of the suffix, -1 when the call has no argument
buffered_rand_storage_key(st, suffix_len) ==
  UNION { IF ~e.ok
          THEN Failed(e.st, "buffered_rand_storage_key", suffix_len, "TypeError")
          ELSE IF suffix_len > SUFFIX_MAX_SIZE
          THEN Failed(e.st, "buffered_rand_storage_key", suffix_len,
                      "ValueError")
          ELSE Served(e.st, "buffered_rand_storage_key", suffix_len, RAND_SIZE,
                      encode_base64url(RAND_SIZE)
                        + (IF suffix_len > 0 THEN suffix_len ELSE 0)) :
          e \in ensure_buffer(st, RAND_SIZE) }

(***************************************************************************)
(* The list-stack parser (src/optimized/xml_parse.c).  Its locals are      *)
(* those of xml_parse above, with the stack a Python list of               *)
(* (name, dict, list) tuples that grows as needed, and with text_key a     *)
(* local that is nullptr until the first text node is handled.  The merge  *)
(* of a child into its parent, the tokenizer and the move to the next node *)
(* are the same code in both files.                                        *)
(***************************************************************************)
optimized_InitialParser ==
  [pc |-> "loop", stack |-> <<>>, current_name |-> NULLPTR,
   current_dict |-> NULLPTR, current_list |-> NULLPTR,
   result |-> NULLPTR, err |-> NoError, text_key |-> NULLPTR]

\* case XML_READER_TYPE_ELEMENT: PyList_Append(stack, tuple) has no limit
optimized_element_case(ps, local_name) ==
  [ps EXCEPT
     !.stack = IF ps.current_dict # NULLPTR
               THEN Append(@, StackFrame(ps.current_name, ps.current_dict,
                                         ps.current_list))
               ELSE @,
     !.current_name = TagKey(local_name),
     !.current_dict = PyNone,
     !.current_list = PyNone]

\* the value handed to the parent when the dict of a text-only element is
\* kept as it is
optimized_current_result_dict_kept(current_dict, current_list, tkey) ==
  IF current_dict = PyNone /\ current_list = PyNone THEN NULLPTR
  ELSE IF current_list = PyNone THEN current_dict
  ELSE IF current_dict = PyNone THEN current_list
  ELSE PyList(current_list.e \o PyDict_Items(current_dict))

\* the value an element hands to its parent; the text of a text-only
\* element is looked up only once text_key exists
optimized_current_result(current_dict, current_list, tkey) ==
  IF current_dict = PyNone /\ current_list = PyNone THEN NULLPTR
  ELSE IF current_list = PyNone
       THEN LET text == IF tkey # NULLPTR /\ PyDict_GET_SIZE(current_dict) = 1
                        THEN PyDict_GetItem(current_dict, tkey) ELSE NULLPTR
            IN  IF text # NULLPTR THEN text ELSE current_dict
  ELSE IF current_dict = PyNone THEN current_list
  ELSE PyList(current_list.e \o PyDict_Items(current_dict))

\* case XML_READER_TYPE_END_ELEMENT: the newest tuple of the list is taken
\* off when the list is not empty
optimized_end_element_case(ps) ==
  LET current_result ==
        optimized_current_result(ps.current_dict, ps.current_list, ps.text_key)
      n     == Len(ps.stack)
      m     == merge_into_parent(ps.current_name, current_result,
                                 ps.stack[n].dict, ps.stack[n].list)
  IN  IF n # 0
      THEN [ps EXCEPT !.stack = SubSeq(ps.stack, 1, n - 1),
                      !.current_name = ps.stack[n].name,
                      !.current_dict = m.dict,
                      !.current_list = m.list]
      ELSE IF current_result = NULLPTR
           \* PyDict_SetItem(result, current_name, nullptr)
           THEN [ps EXCEPT !.pc = "ub"]
           ELSE [ps EXCEPT !.pc = "exit",
                           !.current_dict = IF @ = PyNone THEN @ ELSE NULLPTR,
                           !.current_list = IF @ = PyNone THEN @ ELSE NULLPTR,
                           !.result = PyDict(<< <<ps.current_name, current_result>> >>)]

\* case XML_READER_TYPE_ATTRIBUTE and case XML_READER_TYPE_TEXT: the key is
\* made before the value is coerced
optimized_attribute_text_case(ps, node_type, local_name, value_xml) ==
  LET d == IF ps.current_dict = PyNone THEN PyDict(<<>>) ELSE ps.current_dict
      postprocess_key == IF node_type = "ATTRIBUTE" THEN local_name
                         ELSE ps.current_name[2]
      tkey == IF node_type = "TEXT" THEN text_key ELSE ps.text_key
      set_key == IF node_type = "ATTRIBUTE" THEN <<"@", postprocess_key>>
                 ELSE tkey
      value == postprocess_value(postprocess_key, value_xml)
  IN  IF value = NULLPTR
      THEN ReturnError([ps EXCEPT !.current_dict = d, !.text_key = tkey],
                       BadValue(postprocess_key, value_xml))
      ELSE [ps EXCEPT !.current_dict = PyDict_SetItem(d, set_key, value),
                      !.text_key = tkey]

optimized_switch_node_type(ps, cur) ==
  CASE cur.type = "ELEMENT"     -> optimized_element_case(ps, cur.name)
    [] cur.type = "END_ELEMENT" -> optimized_end_element_case(ps)
    [] cur.type \in {"ATTRIBUTE", "TEXT"} ->
         optimized_attribute_text_case(ps, cur.type, cur.name, cur.value)
    [] OTHER -> ps

\* after the loop, and the labels ok and fail
optimized_after_loop(ps, parse_ret) ==
  IF parse_ret < 0 THEN ReturnError(ps, Error("Malformed"))
  ELSE IF Len(ps.stack) # 0 \/ (ps.result = NULLPTR /\ ps.current_dict # NULLPTR)
       THEN ReturnError(ps, Error("StackNotEmpty"))
  ELSE IF ps.result = NULLPTR THEN ReturnError(ps, Error("EmptyDocument"))
  ELSE [ps EXCEPT !.pc = "exit"]

\* the locals are released and the call returns result
optimized_return(ps) ==
  [optimized_InitialParser EXCEPT !.pc = "done", !.result = ps.result,
                                  !.err = ps.err]

(***************************************************************************)
(* The tokenizer (xmlTextReader).  A node is what the reader stands on:    *)
(*   ret    the value of the last read or attribute advance (1, 0, -1)     *)
(*   type   ELEMENT, END_ELEMENT, ATTRIBUTE, TEXT, OTHER (any node type    *)
(*          the switch has no case for) or NONE                            *)
(*   name, value   local name and value of the node                        *)
(*   attrs  the attributes of the element not yet visited                  *)
(*   empty  xmlTextReaderIsEmptyElement of the element                     *)
(***************************************************************************)
Node(ret, type, name, value, attrs, empty) ==
  [ret |-> ret, type |-> type, name |-> name, value |-> value,
   attrs |-> attrs, empty |-> empty]

NoNode == Node(1, "NONE", "", <<>>, <<>>, FALSE)
ElementNode(name, attrs, empty) == Node(1, "ELEMENT", name, <<>>, attrs, empty)
TextNode(value) == Node(1, "TEXT", "", value, <<>>, FALSE)
EndElementNode(name) == Node(1, "END_ELEMENT", name, <<>>, <<>>, FALSE)
OtherNode == Node(1, "OTHER", "", <<>>, <<>>, FALSE)
EndOfInput == Node(0, "NONE", "", <<>>, <<>>, FALSE)
ReadError == Node(-1, "NONE", "", <<>>, <<>>, FALSE)

\* the move to the next node without the simulated close
iterate_unclosed(cur) ==
  IF cur.type \in {"ELEMENT", "ATTRIBUTE"}
  THEN IF cur.attrs # <<>>
       THEN [kind |-> "attr",
             node |-> [cur EXCEPT !.type = "ATTRIBUTE",
                                  !.name = Head(cur.attrs)[1],
                                  !.value = Head(cur.attrs)[2],
                                  !.attrs = Tail(cur.attrs)]]
       ELSE [kind |-> "read", node |-> cur]
  ELSE [kind |-> "read", node |-> cur]

\* "Iterate to the next node": what the loop does after the switch.
\*   attr  xmlTextReaderMoveToNextAttribute found an attribute
\*   end   no attribute left on an empty element: the close is simulated
\*   read  xmlTextReaderRead is called
iterate(cur) ==
  IF cur.type \in {"ELEMENT", "ATTRIBUTE"}
  THEN IF cur.attrs # <<>>
       THEN [kind |-> "attr",
             node |-> [cur EXCEPT !.type = "ATTRIBUTE",
                                  !.name = Head(cur.attrs)[1],
                                  !.value = Head(cur.attrs)[2],
                                  !.attrs = Tail(cur.attrs)]]
       ELSE IF cur.empty
            THEN [kind |-> "end", node |-> [cur EXCEPT !.type = "END_ELEMENT"]]
            ELSE [kind |-> "read", node |-> cur]
  ELSE [kind |-> "read", node |-> cur]

\* xmlTextReaderMoveToNextAttribute returning -1
attribute_error(cur) == [cur EXCEPT !.ret = -1, !.type = "ATTRIBUTE"]

(***************************************************************************)
(* Documents.  The tokenizer hands out the nodes of a well-formed document *)
(* chosen as the parse goes; doc keeps what has been handed out:           *)
(*   depth   elements open in the document                                 *)
(*   elems   elements started, decor attributes and text nodes handed out  *)
(*   lastText  the previous node was text (two text nodes are never        *)
(*             adjacent), closing  an element has been closed              *)
(*   root    the name of the root element, "" before it is read            *)
(*   script  the nodes of a given document that are still to be read, and  *)
(*   source  all the nodes of that document                                *)
(* A profile bounds the documents of one specification.                    *)
(***************************************************************************)
S_1     == <<"1">>
S_a     == <<"a">>
S_42    == <<"4", "2">>
S_042   == <<"0", "4", "2">>
S_neg7  == <<"-", "7">>
S_4x    == <<"4", "x">>
S_empty == <<>>
S_big   == LLONG_MIN_MAG      \* 2^63, one more than LLONG_MAX
S_1p5   == <<"1", ".", "5">>
S_1p50  == <<"1", ".", "5", "0">>
S_huge  == <<"1", "e", "9", "9", "9">>
S_true  == <<"t", "r", "u", "e">>
S_false == <<"f", "a", "l", "s", "e">>
S_True  == <<"T", "r", "u", "e">>
S_true_led   == <<" ">> \o S_true
S_true_trail == S_true \o <<" ">>
S_date  == <<"2", "0", "2", "0", "-", "0", "1", "-", "0", "2">>
S_time  == <<"0", "3", ":", "0", "4", ":", "0", "5">>
S_isoZ  == S_date \o <<"T">> \o S_time \o <<"Z">>
S_isoUs == S_date \o <<"T">> \o S_time \o <<".", "5", "Z">>
S_isoOff == S_date \o <<"T">> \o S_time \o <<"+", "0", "2", ":", "0", "0">>
S_sp    == S_date \o <<" ">> \o S_time \o <<" ", "U", "T", "C">>

RawValues ==
  { S_1, S_a, S_42, S_042, S_neg7, S_4x, S_empty, S_big, S_1p5, S_1p50,
    S_huge, S_true, S_false, S_True, S_true_led, S_true_trail, S_date,
    S_isoZ, S_isoUs, S_isoOff, S_sp }

\* a text node is never blank: blank text is reported as white space
IsBlank(s) == \A i \in 1..Len(s) : isspace(s[i])
TextValues == {s \in RawValues : ~IsBlank(s)}

CoercedKeys == SeqRange(PostprocessorKeys)

StructureProfile ==
  [roots |-> {"osm", "node", "tag"}, names |-> {"osm", "node", "tag"},
   attrOn |-> {"osm", "node", "tag"},
   attrLists |-> { << <<"id", S_1>> >>, << <<"id", S_1>>, <<"k", S_a>> >> },
   texts |-> {S_a},
   maxElems |-> MaxElems, maxDepth |-> MaxDepth, maxDecor |-> MaxDecor,
   maxFaultElems |-> MaxFaultElems, chain |-> FALSE, scripted |-> FALSE]

DeepProfile ==
  [roots |-> {"x"}, names |-> {"x"}, attrOn |-> {"x"},
   attrLists |-> { << <<"k", S_a>> >>, << <<"visible", S_a>> >> },
   texts |-> {S_a},
   maxElems |-> STACK_SIZE + 2, maxDepth |-> STACK_SIZE + 2,
   maxDecor |-> DeepExtra, maxFaultElems |-> STACK_SIZE + 2, chain |-> TRUE, scripted |-> FALSE]

CoerceProfile ==
  [roots |-> CoercedKeys \cup {"x"}, names |-> {"x"}, attrOn |-> {"x"},
   attrLists |-> { << <<k, r>> >> : k \in CoercedKeys \cup {"k"}, r \in RawValues },
   texts |-> TextValues,
   maxElems |-> 1, maxDepth |-> 1, maxDecor |-> MaxDecor,
   maxFaultElems |-> 1, chain |-> FALSE, scripted |-> FALSE]

RepeatProfile ==
  [roots |-> {"osm"}, names |-> {"osm", "node"}, attrOn |-> {"osm", "node"},
   attrLists |-> { << <<"id", S_1>> >> },
   texts |-> {S_a},
   maxElems |-> MaxElems + 1, maxDepth |-> MaxDepth, maxDecor |-> MaxDecor,
   maxFaultElems |-> MaxFaultElems, chain |-> FALSE, scripted |-> FALSE]

S_2     == <<"2">>
S_Alice == <<"A", "l", "i", "c", "e">>

\* the nodes the reader reports for given documents:
\* <osmChange><create><node id="1"/></create>
\*            <modify><way id="2"/></modify></osmChange>
Doc_osmChange ==
  << ElementNode("osmChange", <<>>, FALSE),
     ElementNode("create", <<>>, FALSE),
     ElementNode("node", << <<"id", S_1>> >>, TRUE),
     EndElementNode("create"),
     ElementNode("modify", <<>>, FALSE),
     ElementNode("way", << <<"id", S_2>> >>, TRUE),
     EndElementNode("modify"),
     EndElementNode("osmChange") >>

\* <root><name>Alice</name></root>
Doc_name ==
  << ElementNode("root", <<>>, FALSE), ElementNode("name", <<>>, FALSE),
     TextNode(S_Alice), EndElementNode("name"), EndElementNode("root") >>

\* <root>a<!-- -->1</root>: the comment is a node without a case
Doc_texts ==
  << ElementNode("root", <<>>, FALSE), TextNode(S_a), OtherNode,
     TextNode(S_1), EndElementNode("root") >>

\* <root>a<name k="a"/>1</root>
Doc_textsAroundChild ==
  << ElementNode("root", <<>>, FALSE), TextNode(S_a),
     ElementNode("name", << <<"k", S_a>> >>, TRUE),
     TextNode(S_1), EndElementNode("root") >>

\* <osm k="a" v="1"><node id="1"/><tag k="a"/><way id="2"/>a</osm>
Doc_mixed ==
  << ElementNode("osm", << <<"k", S_a>>, <<"v", S_1>> >>, FALSE),
     ElementNode("node", << <<"id", S_1>> >>, TRUE),
     ElementNode("tag", << <<"k", S_a>> >>, TRUE),
     ElementNode("way", << <<"id", S_2>> >>, TRUE),
     TextNode(S_a), EndElementNode("osm") >>

\* <osm k="a"><node id="1"/><node/><tag/><name><way/></name></osm>
Doc_empties ==
  << ElementNode("osm", << <<"k", S_a>> >>, FALSE),
     ElementNode("node", << <<"id", S_1>> >>, TRUE),
     ElementNode("node", <<>>, TRUE),
     ElementNode("tag", <<>>, TRUE),
     ElementNode("name", <<>>, FALSE),
     ElementNode("way", <<>>, TRUE),
     EndElementNode("name"),
     EndElementNode("osm") >>

\* <osm><node id="1" lat="1.5" lon="42"/><tag k="a" v="1"/></osm>
Doc_selfClosing ==
  << ElementNode("osm", <<>>, FALSE),
     ElementNode("node", << <<"id", S_1>>, <<"lat", S_1p5>>, <<"lon", S_42>> >>,
                 TRUE),
     ElementNode("tag", << <<"k", S_a>>, <<"v", S_1>> >>, TRUE),
     EndElementNode("osm") >>

\* <osm/>
Doc_emptyRoot == << ElementNode("osm", <<>>, TRUE) >>

ScenarioDocuments ==
  {Doc_osmChange, Doc_name, Doc_texts, Doc_textsAroundChild, Doc_mixed,
   Doc_empties, Doc_selfClosing, Doc_emptyRoot}

ScenarioProfile ==
  [scripted |-> TRUE, docs |-> ScenarioDocuments,
   maxFaultElems |-> MaxFaultElems]

ProfileOf(p) ==
  CASE p = "structure" -> StructureProfile
    [] p = "deep"      -> DeepProfile
    [] p = "coerce"    -> CoerceProfile
    [] p = "repeat"    -> RepeatProfile
    [] p = "scenario"  -> ScenarioProfile

NewDocument ==
  [depth |-> 0, elems |-> 0, decor |-> 0,
   lastText |-> FALSE, closing |-> FALSE, root |-> "", script |-> <<>>,
   source |-> <<>>]

FaultsAllowed(d, p) == d.elems <= p.maxFaultElems

\* the documents a parse of the profile may be given
Documents(p) ==
  IF p.scripted
  THEN {[NewDocument EXCEPT !.script = s, !.source = s] : s \in p.docs}
  ELSE {NewDocument}

\* xmlTextReaderRead on a given document: its next node, the end of the
\* input after its last node
ScriptReads(d, p) ==
  (IF d.script = <<>> THEN {[node |-> EndOfInput, doc |-> d]}
   ELSE LET n == Head(d.script)
        IN  {[node |-> n,
              doc |-> [d EXCEPT !.script = Tail(@),
                                !.root = IF d.elems = 0 THEN n.name ELSE @,
                                !.elems = IF n.type = "ELEMENT" THEN @ + 1
                                          ELSE @]]})
  \cup
  (IF FaultsAllowed(d, p)
   THEN {[node |-> EndOfInput, doc |-> d], [node |-> ReadError, doc |-> d]}
   ELSE {})

\* the outcomes of xmlTextReaderRead: the node read and the document after
Reads(d, p) ==
  IF p.scripted THEN ScriptReads(d, p) ELSE
  LET elementOk == /\ d.elems < p.maxElems /\ d.depth < p.maxDepth
                   /\ (d.depth > 0 \/ d.elems = 0)
                   /\ ~(p.chain /\ d.closing)
      names  == IF d.depth = 0 THEN p.roots ELSE p.names
      lists(n) == {<<>>} \cup
                  (IF n \in p.attrOn
                   THEN {a \in p.attrLists : d.decor + Len(a) <= p.maxDecor}
                   ELSE {})
      opened(n, a, e) ==
                      [d EXCEPT !.depth = IF e THEN @ ELSE @ + 1,
                                !.root = IF d.elems = 0 THEN n ELSE @,
                                !.elems = @ + 1, !.decor = @ + Len(a),
                                !.lastText = FALSE,
                                !.closing = IF e THEN TRUE ELSE @]
  IN  (IF elementOk
       THEN UNION {{[node |-> ElementNode(n, a, e), doc |-> opened(n, a, e)] :
                      a \in lists(n), e \in BOOLEAN} : n \in names}
       ELSE {})
      \cup
      (IF d.depth > 0 /\ ~d.lastText /\ d.decor < p.maxDecor
       THEN {[node |-> TextNode(v),
              doc |-> [d EXCEPT !.decor = @ + 1, !.lastText = TRUE]] :
               v \in p.texts}
       ELSE {})
      \cup
      (IF d.depth > 0
       THEN {[node |-> EndElementNode(""),
              doc |-> [d EXCEPT !.depth = @ - 1, !.lastText = FALSE,
                                !.closing = TRUE]]}
       ELSE {})
      \cup
      {[node |-> OtherNode, doc |-> [d EXCEPT !.lastText = FALSE]]}
      \cup
      (IF FaultsAllowed(d, p)
       THEN {[node |-> EndOfInput, doc |-> d], [node |-> ReadError, doc |-> d]}
       ELSE {})

(***************************************************************************)
(* State of one call of xml_parse, followed by xml_unparse of its result   *)
(* and a second xml_parse of the document that xml_unparse produced.       *)
(***************************************************************************)
VARIABLES
  prof,           \* the name of the profile bounding the document
  doc,            \* what the tokenizer has handed out
  reader,         \* the node the reader stands on
  parse_ret,      \* xml_parse: parse_ret
  node_type,      \* xml_parse: node_type
  pc,             \* "start", "loop", "exit", "done", "crash",
                  \* then "unparsed" and "reparsed"; "tree_unparsed" and
                  \* "tree_reparsed" for a tree built by the caller
  stack,
  current_name,
  current_dict,
  current_list,
  result,
  err,
  unparse_arg,    \* the tree xml_unparse was called with
  unparsed,       \* what xml_unparse returned for tree
  reparsed,       \* what xml_parse returned for that document
  children,       \* for each open element, oldest first, the children
                  \* closed so far: their names and the values they
                  \* handed to the element (nullptr for none)
  ledger,         \* the resources of the call: how often the reader has
                  \* been freed, how many frames have been pushed and
                  \* popped, the frames stack_cleanup has released; and
                  \* for each open element whether the reader has reported
                  \* an attribute, a text or a non-empty child of it
  twin,           \* the locals of the list-stack parser, run on the same
                  \* nodes as xml_parse
  eid,            \* the call into element_type.c: function, arguments, return
  rand,           \* buffered_rand.c: buffer_pos, buffer_valid, what became
                  \* of the byte in each slot of buffer, and the last call
  calls,          \* calls of xml_parse that run side by side: for each its
                  \* input and its locals
  handles         \* the readers of those calls: the node each stands on
                  \* and the nodes it has still to read

vars == <<prof, doc, reader, parse_ret, node_type, pc, stack, current_name,
          current_dict, current_list, result, err, unparse_arg, unparsed,
          reparsed, children, ledger, twin, calls, handles, eid, rand>>

NotYet == [status |-> "none"]

\* the locals of xml_parse as one parser state, and back
Parser ==
  [pc |-> pc, stack |-> stack, current_name |-> current_name,
   current_dict |-> current_dict, current_list |-> current_list,
   result |-> result, err |-> err]

Current == [reader EXCEPT !.ret = parse_ret, !.type = node_type]

\* undefined behaviour ends the process: a failed assertion in a build with
\* assertions, a fault on the null pointer otherwise
UndefinedOutcomes == {"SIGABRT", "SIGSEGV"}

\* the ledger after a step that takes the stack from depth a to depth b
Account(l, a, b) ==
  [l EXCEPT !.pushed = IF b > a THEN @ + (b - a) ELSE @,
            !.popped = IF a > b THEN @ + (a - b) ELSE @]

\* the marks of the open elements after a turn of the loop on a node of the
\* given type: an element is marked once the reader has reported for it an
\* attribute, a text or a child element that is marked
Marked(m, type) ==
  IF type = "ELEMENT" THEN Append(m, FALSE)
  ELSE IF m = <<>> THEN m
  ELSE IF type \in {"ATTRIBUTE", "TEXT"} THEN [m EXCEPT ![Len(m)] = TRUE]
  ELSE IF type = "END_ELEMENT"
       THEN IF Len(m) = 1 THEN <<>>
            ELSE [SubSeq(m, 1, Len(m) - 1) EXCEPT ![Len(m) - 1] = @ \/ m[Len(m)]]
  ELSE m

BecomeParser(ps) ==
  /\ stack' = ps.stack
  /\ ledger' = [Account(ledger, Len(stack), Len(ps.stack)) EXCEPT
                  !.marks = IF pc = "loop" /\ parse_ret = 1 /\ ps.pc = "loop"
                            THEN Marked(@, node_type) ELSE @]
  /\ current_name' = ps.current_name
  /\ current_dict' = ps.current_dict
  /\ current_list' = ps.current_list
  /\ result' = ps.result
  /\ IF ps.pc = "ub"
     THEN \E o \in UndefinedOutcomes : pc' = "crash" /\ err' = Error(o)
     ELSE pc' = ps.pc /\ err' = ps.err

BecomeNode(n, d) ==
  /\ reader' = n
  /\ parse_ret' = n.ret
  /\ node_type' = n.type
  /\ doc' = d

InitWith(p) ==
  /\ prof = p
  /\ doc \in Documents(ProfileOf(p))
  /\ reader = NoNode
  /\ parse_ret = 0
  /\ node_type = "NONE"
  /\ pc = "start"
  /\ stack = InitialParser.stack
  /\ current_name = InitialParser.current_name
  /\ current_dict = InitialParser.current_dict
  /\ current_list = InitialParser.current_list
  /\ result = InitialParser.result
  /\ err = InitialParser.err
  /\ unparse_arg = NULLPTR
  /\ unparsed = NotYet
  /\ reparsed = NotYet
  /\ children = <<>>
  /\ ledger = [reader_frees |-> 0, pushed |-> 0, popped |-> 0, released |-> <<>>,
               marks |-> <<>>]
  /\ twin = optimized_InitialParser
  /\ eid = NoCall
  /\ rand = InitialRand
  /\ calls = <<>>
  /\ handles = <<>>

Init == InitWith("structure")
InitDeep == InitWith("deep")
InitCoerce == InitWith("coerce")
InitRepeat == InitWith("repeat")
InitScenario == InitWith("scenario")

\* the first xmlTextReaderRead, before the loop
FirstRead ==
  /\ pc = "start"
  /\ \E r \in Reads(doc, ProfileOf(prof)) : BecomeNode(r.node, r.doc)
  /\ pc' = "loop"
  /\ UNCHANGED <<eid, rand, calls, handles, prof, stack, current_name, current_dict, current_list,
                 result, err, unparse_arg, unparsed, reparsed, children,
                 ledger, twin>>

Child(name, value) == [name |-> name, value |-> value]

\* the record of closed children after a turn of the loop that goes on
Observe(type) ==
  IF type = "ELEMENT" THEN Append(children, <<>>)
  ELSE IF type = "END_ELEMENT"
       THEN LET n == Len(children)
            IN  [SubSeq(children, 1, n - 1) EXCEPT ![n - 1] =
                   Append(@, Child(current_name[2],
                                   current_result_of(current_dict, current_list)))]
  ELSE children

\* one turn of the loop: the switch, then the move to the next node
LoopTurn ==
  /\ pc = "loop" /\ parse_ret = 1
  /\ \E ps \in {switch_node_type(Parser, Current)}, it \in {iterate(Current)} :
         /\ BecomeParser(ps)
         /\ children' = IF ps.pc = "loop" THEN Observe(node_type) ELSE children
         /\ IF ps.pc # "loop"
            THEN UNCHANGED <<doc, reader, parse_ret, node_type>>
            ELSE \/ /\ it.kind # "read"
                    /\ BecomeNode(it.node, doc)
                 \/ /\ it.kind = "read"
                    /\ \E r \in Reads(doc, ProfileOf(prof)) : BecomeNode(r.node, r.doc)
                 \/ /\ node_type \in {"ELEMENT", "ATTRIBUTE"}
                    /\ FaultsAllowed(doc, ProfileOf(prof))
                    /\ BecomeNode(attribute_error(Current), doc)
  /\ twin' = IF twin.pc = "loop"
             THEN optimized_switch_node_type(twin, Current) ELSE twin
  /\ UNCHANGED <<eid, rand, calls, handles, prof, unparse_arg, unparsed, reparsed>>

CaseElement == node_type = "ELEMENT" /\ LoopTurn
CaseEndElement == node_type = "END_ELEMENT" /\ LoopTurn
CaseAttribute == node_type = "ATTRIBUTE" /\ LoopTurn
CaseText == node_type = "TEXT" /\ LoopTurn
\* a node type the switch has no case for
CaseOther == node_type = "OTHER" /\ LoopTurn

\* an allocation of the current turn fails: the call returns nullptr.  In
\* the element case the frame has been pushed before the name is allocated.
alloc_failure(ps, cur) ==
  LET ps1 == IF cur.type = "ELEMENT" THEN element_case(ps, cur.name) ELSE ps
  IN  IF ps1.pc # "loop" THEN ps1
      ELSE ReturnError(IF cur.type = "ELEMENT"
                       THEN [ps1 EXCEPT !.current_name = NULLPTR] ELSE ps1,
                       Error("OutOfMemory"))

AllocationFails ==
  /\ pc = "loop" /\ parse_ret = 1
  /\ node_type \in {"ELEMENT", "END_ELEMENT", "ATTRIBUTE", "TEXT"}
  /\ FaultsAllowed(doc, ProfileOf(prof))
  /\ \E ps \in {alloc_failure(Parser, Current)} : BecomeParser(ps)
  /\ twin' = IF twin.pc = "loop"
             THEN ReturnError(twin, Error("OutOfMemory")) ELSE twin
  /\ UNCHANGED <<eid, rand, calls, handles, prof, doc, reader, parse_ret, node_type, unparse_arg, unparsed,
                 reparsed, children>>

\* the loop is left with parse_ret # 1
LoopExit ==
  /\ pc = "loop" /\ parse_ret # 1
  /\ \E ps \in {after_loop(Parser, parse_ret)} : BecomeParser(ps)
  /\ twin' = IF twin.pc = "loop"
             THEN optimized_after_loop(twin, parse_ret) ELSE twin
  /\ UNCHANGED <<eid, rand, calls, handles, prof, doc, reader, parse_ret, node_type, unparse_arg, unparsed,
                 reparsed, children>>

\* leaving the scope of xml_parse: stack_cleanup drains the stack, the
\* scoped locals are released and the reader is freed; the return value is
\* result
ScopeExit ==
  /\ pc = "exit"
  /\ pc' = "done"
  /\ \E c \in {stack_cleanup(stack)} :
       /\ stack' = c.stack
       /\ ledger' = [ledger EXCEPT !.released = c.released,
                                   !.reader_frees = @ + 1]
  /\ current_name' = NULLPTR
  /\ current_dict' = NULLPTR
  /\ current_list' = NULLPTR
  /\ reader' = NoNode
  /\ parse_ret' = 0
  /\ node_type' = "NONE"
  /\ doc' = NewDocument
  /\ children' = <<>>
  /\ twin' = IF twin.pc = "exit" THEN optimized_return(twin) ELSE twin
  /\ UNCHANGED <<eid, rand, calls, handles, prof, result, err, unparse_arg, unparsed, reparsed>>

(***************************************************************************)
(* xml_unparse.  An XML node is an element [name, attrs, kids] or a text   *)
(* node; the functions return the parent with the new nodes added, or the  *)
(* error raised.                                                           *)
(***************************************************************************)
XmlElement(name, attrs, kids) ==
  [k |-> "elem", name |-> name, attrs |-> attrs, kids |-> kids]
XmlText(s) == [k |-> "text", s |-> s]

Done(node) == [ok |-> TRUE, node |-> node, err |-> "none"]
Raise(kind) == [ok |-> FALSE, node |-> XmlText(<<>>), err |-> kind]

IntChars(v) == (IF v.neg THEN <<"-">> ELSE <<>>) \o v.mag

\* repr of a float written without exponent (1e-4 <= |x| < 1e16, or zero)
FloatChars(v) ==
  (IF v.neg THEN <<"-">> ELSE <<>>) \o v.ip \o <<".">>
    \o (IF v.fp = <<>> THEN <<"0">> ELSE v.fp)

IsZeroMicros(us) == \A i \in 1..Len(us) : us[i] = "0"

\* to_string without the test of tzinfo
to_string_any_zone(value) ==
  CASE value.t = "Bool" -> [ok |-> TRUE, s |-> IF value.b THEN S_true ELSE S_false]
    [] value.t = "None" -> [ok |-> TRUE, s |-> <<>>]
    [] value.t = "Str"  -> [ok |-> TRUE, s |-> value.s]
    [] value.t = "Timestamp" ->
         [ok |-> TRUE,
          s |-> value.date \o <<"T">> \o value.time
                  \o (IF IsZeroMicros(value.us) THEN <<>>
                      ELSE <<".">> \o value.us)
                  \o <<"Z">>]
    [] value.t = "Int"   -> [ok |-> TRUE, s |-> IntChars(value)]
    [] value.t = "Float" -> [ok |-> TRUE, s |-> FloatChars(value)]
    [] OTHER -> [ok |-> TRUE, s |-> <<"<", value.t, ">">>]

to_string(value) ==
  CASE value.t = "Bool" -> [ok |-> TRUE, s |-> IF value.b THEN S_true ELSE S_false]
    [] value.t = "None" -> [ok |-> TRUE, s |-> <<>>]
    [] value.t = "Str"  -> [ok |-> TRUE, s |-> value.s]
    [] value.t = "Timestamp" ->
         IF value.tz \notin {"none", "utc"}
         THEN [ok |-> FALSE, s |-> <<>>]
         ELSE [ok |-> TRUE,
               s |-> value.date \o <<"T">> \o value.time
                       \o (IF IsZeroMicros(value.us) THEN <<>>
                           ELSE <<".">> \o value.us)
                       \o <<"Z">>]
    [] value.t = "Int"   -> [ok |-> TRUE, s |-> IntChars(value)]
    [] value.t = "Float" -> [ok |-> TRUE, s |-> FloatChars(value)]
    [] OTHER -> [ok |-> TRUE, s |-> <<"<", value.t, ">">>]

\* xmlNodeAddContent: nothing for an empty string, otherwise a text node,
\* merged into a text node it follows
AddContent(element, s) ==
  IF s = <<>> THEN element
  ELSE IF element.kids # <<>> /\ element.kids[Len(element.kids)].k = "text"
       THEN [element EXCEPT !.kids[Len(element.kids)].s = @ \o s]
       ELSE [element EXCEPT !.kids = Append(@, XmlText(s))]

AddChild(parent, node) == [parent EXCEPT !.kids = Append(@, node)]

unparse_scalar(parent, key, value) ==
  LET r == to_string(value)
  IN  IF ~r.ok THEN Raise("NonUTCTimestamp")
      ELSE Done(AddChild(parent, AddContent(XmlElement(key, <<>>, <<>>), r.s)))

IsStrObject(v) == v.t \in {"Key", "Str"}

RECURSIVE unparse_element(_, _, _, _)
RECURSIVE unparse_items(_, _, _)
RECURSIVE unparse_sequence(_, _, _, _, _, _)
RECURSIVE unparse_sequence_per_tuple(_, _, _, _, _, _)
RECURSIVE unparse_sequence_scalars(_, _, _, _, _, _)

unparse_item(element, key, value) ==
  IF key[1] = "@"
  THEN LET r == to_string(value)
       IN  IF ~r.ok THEN Raise("NonUTCTimestamp")
           ELSE Done([element EXCEPT !.attrs = Append(@, <<key[2], r.s>>)])
  ELSE IF key = text_key
  THEN LET r == to_string(value)
       IN  IF ~r.ok THEN Raise("NonUTCTimestamp")
           ELSE Done(AddContent(element, r.s))
  ELSE unparse_element(element, key[2], value, FALSE)

\* the items e[i..] of a dict applied to element
unparse_items(element, e, i) ==
  IF i > Len(e) THEN Done(element)
  ELSE IF ~IsStrKey(e[i][1]) THEN Raise("BadDictKey")
  ELSE LET r == unparse_item(element, e[i][1], e[i][2])
       IN  IF ~r.ok THEN r ELSE unparse_items(r.node, e, i + 1)

unparse_dict(parent, key, value) ==
  LET r == unparse_items(XmlElement(key, <<>>, <<>>), value.e, 1)
  IN  IF ~r.ok THEN r ELSE Done(AddChild(parent, r.node))

\* the loop without the root test of its scalar branch
unparse_sequence_scalars(parent, key, e, i, te, is_root) ==
  IF i > Len(e) THEN Done(parent)
  ELSE LET item == e[i]
       IN  IF item.t = "Dict"
           THEN IF is_root /\ Len(e) > 1 THEN Raise("BadRoot")
                ELSE LET r == unparse_dict(parent, key, item)
                     IN  IF ~r.ok THEN r
                         ELSE unparse_sequence_scalars(r.node, key, e, i + 1, te, is_root)
           ELSE IF item.t \in {"List", "Tuple"}
           THEN LET p1 == IF te = 0
                          THEN AddChild(parent, XmlElement(key, <<>>, <<>>))
                          ELSE parent
                    t1 == IF te = 0 THEN Len(p1.kids) ELSE te
                IN  IF Len(item.e) # 2 THEN Raise("BadTuple")
                    ELSE IF ~IsStrObject(item.e[1]) THEN Raise("BadTupleKey")
                    ELSE LET r == unparse_item(p1.kids[t1], item.e[1].k, item.e[2])
                         IN  IF ~r.ok THEN r
                             ELSE unparse_sequence_scalars(
                                    [p1 EXCEPT !.kids[t1] = r.node],
                                    key, e, i + 1, t1, is_root)
           ELSE LET r == unparse_scalar(parent, key, item)
                IN  IF ~r.ok THEN r
                    ELSE unparse_sequence_scalars(r.node, key, e, i + 1, te, is_root)

\* the loop with a new element made for every tuple
unparse_sequence_per_tuple(parent, key, e, i, te, is_root) ==
  IF i > Len(e) THEN Done(parent)
  ELSE LET item == e[i]
       IN  IF item.t = "Dict"
           THEN IF is_root /\ Len(e) > 1 THEN Raise("BadRoot")
                ELSE LET r == unparse_dict(parent, key, item)
                     IN  IF ~r.ok THEN r
                         ELSE unparse_sequence_per_tuple(r.node, key, e, i + 1, te, is_root)
           ELSE IF item.t \in {"List", "Tuple"}
           THEN LET p1 == AddChild(parent, XmlElement(key, <<>>, <<>>))
                    t1 == Len(p1.kids)
                IN  IF Len(item.e) # 2 THEN Raise("BadTuple")
                    ELSE IF ~IsStrObject(item.e[1]) THEN Raise("BadTupleKey")
                    ELSE LET r == unparse_item(p1.kids[t1], item.e[1].k, item.e[2])
                         IN  IF ~r.ok THEN r
                             ELSE unparse_sequence_per_tuple(
                                    [p1 EXCEPT !.kids[t1] = r.node],
                                    key, e, i + 1, t1, is_root)
           ELSE IF is_root /\ Len(e) > 1 THEN Raise("BadRoot")
                ELSE LET r == unparse_scalar(parent, key, item)
                     IN  IF ~r.ok THEN r
                         ELSE unparse_sequence_per_tuple(r.node, key, e, i + 1, te, is_root)

\* the loop over the items e[i..] of a list or tuple; te is the index in
\* parent.kids of tuples_element, 0 while it is nullptr
unparse_sequence(parent, key, e, i, te, is_root) ==
  IF i > Len(e) THEN Done(parent)
  ELSE LET item == e[i]
       IN  IF item.t = "Dict"
           THEN IF is_root /\ Len(e) > 1 THEN Raise("BadRoot")
                ELSE LET r == unparse_dict(parent, key, item)
                     IN  IF ~r.ok THEN r
                         ELSE unparse_sequence(r.node, key, e, i + 1, te, is_root)
           ELSE IF item.t \in {"List", "Tuple"}
           THEN LET p1 == IF te = 0
                          THEN AddChild(parent, XmlElement(key, <<>>, <<>>))
                          ELSE parent
                    t1 == IF te = 0 THEN Len(p1.kids) ELSE te
                IN  IF Len(item.e) # 2 THEN Raise("BadTuple")
                    ELSE IF ~IsStrObject(item.e[1]) THEN Raise("BadTupleKey")
                    ELSE LET r == unparse_item(p1.kids[t1], item.e[1].k, item.e[2])
                         IN  IF ~r.ok THEN r
                             ELSE unparse_sequence(
                                    [p1 EXCEPT !.kids[t1] = r.node],
                                    key, e, i + 1, t1, is_root)
           ELSE IF is_root /\ Len(e) > 1 THEN Raise("BadRoot")
                ELSE LET r == unparse_scalar(parent, key, item)
                     IN  IF ~r.ok THEN r
                         ELSE unparse_sequence(r.node, key, e, i + 1, te, is_root)

unparse_element(parent, key, value, is_root) ==
  IF value.t = "Dict" THEN unparse_dict(parent, key, value)
  ELSE IF value.t \in {"List", "Tuple"}
       THEN unparse_sequence(parent, key, value.e, 1, 0, is_root)
  ELSE unparse_scalar(parent, key, value)

\* xml_unparse: the document (its root element, or no root) or the error
NoRoot == [k |-> "none"]

\* xml_unparse without the test of the root key
xml_unparse_any_key(tree) ==
  IF tree.t # "Dict" THEN [status |-> "error", err |-> "BadArgument", root |-> NoRoot]
  ELSE IF PyDict_GET_SIZE(tree) # 1
       THEN [status |-> "error", err |-> "BadRoot", root |-> NoRoot]
  ELSE LET key == tree.e[1][1]
           r   == unparse_element(XmlElement("X", <<>>, <<>>),
                                  IF IsStrKey(key) THEN key[1] \o key[2] ELSE key[1],
                                  tree.e[1][2], TRUE)
       IN  IF ~r.ok THEN [status |-> "error", err |-> r.err, root |-> NoRoot]
           ELSE [status |-> "ok", err |-> "none",
                 root |-> IF r.node.kids = <<>> THEN NoRoot
                          ELSE r.node.kids[Len(r.node.kids)]]

xml_unparse(tree) ==
  IF tree.t # "Dict" THEN [status |-> "error", err |-> "BadArgument", root |-> NoRoot]
  ELSE IF PyDict_GET_SIZE(tree) # 1
       THEN [status |-> "error", err |-> "BadRoot", root |-> NoRoot]
  ELSE IF ~IsStrKey(tree.e[1][1])
       THEN [status |-> "error", err |-> "BadRootKey", root |-> NoRoot]
  ELSE LET key == tree.e[1][1]
           r   == unparse_element(XmlElement("X", <<>>, <<>>), key[1] \o key[2],
                                  tree.e[1][2], TRUE)
       IN  IF ~r.ok THEN [status |-> "error", err |-> r.err, root |-> NoRoot]
           ELSE [status |-> "ok", err |-> "none",
                 root |-> IF r.node.kids = <<>> THEN NoRoot
                          ELSE r.node.kids[Len(r.node.kids)]]

(***************************************************************************)
(* Reading back a document written by xml_unparse: the nodes the reader    *)
(* reports for it, and xml_parse run over those nodes.                     *)
(***************************************************************************)
RECURSIVE NodesOf(_)
RECURSIVE NodesOfKids(_, _)

\* an element without children is written <e/>; blank text is reported as
\* white space, which the switch ignores
NodesOf(x) ==
  IF x.k = "text"
  THEN <<IF IsBlank(x.s) THEN OtherNode ELSE TextNode(x.s)>>
  ELSE <<ElementNode(x.name, x.attrs, x.kids = <<>>)>>
         \o NodesOfKids(x.kids, 1)
         \o (IF x.kids = <<>> THEN <<>> ELSE <<EndElementNode(x.name)>>)

NodesOfKids(kids, i) ==
  IF i > Len(kids) THEN <<>>
  ELSE NodesOf(kids[i]) \o NodesOfKids(kids, i + 1)

\* a document without a root element does not parse
DocumentNodes(root) == IF root = NoRoot THEN <<ReadError>> ELSE NodesOf(root)

RECURSIVE parse_nodes(_, _, _)
\* the loop of xml_parse over the current node and the nodes still to read
parse_nodes(ps, cur, rest) ==
  IF cur.ret # 1 THEN after_loop(ps, cur.ret)
  ELSE LET ps2 == switch_node_type(ps, cur)
           it  == iterate(cur)
       IN  IF ps2.pc # "loop" THEN ps2
           ELSE IF it.kind # "read" THEN parse_nodes(ps2, it.node, rest)
           ELSE IF rest = <<>> THEN parse_nodes(ps2, EndOfInput, <<>>)
           ELSE parse_nodes(ps2, Head(rest), Tail(rest))

\* xml_parse of a whole document given as its nodes
xml_parse(nodes) ==
  LET ps == IF nodes = <<>> THEN after_loop(InitialParser, 0)
            ELSE parse_nodes(InitialParser, Head(nodes), Tail(nodes))
  IN  IF ps.pc = "ub" THEN [status |-> "crash", value |-> NULLPTR, err |-> NoError]
      ELSE IF ps.result # NULLPTR
           THEN [status |-> "ok", value |-> ps.result, err |-> NoError]
      ELSE [status |-> "error", value |-> NULLPTR, err |-> ps.err]

\* trees a caller may build
Tree(root, value) == PyDict(<< << <<"", root>>, value >> >>)
Attr(name, value) == PyDict(<< << <<"@", name>>, value >> >>)

\* the longest sequence given as a root value
MaxRootItems == 3

OffsetStamp == PyDateTime("other", S_date, ZeroTime, ZeroMicros)

\* the items of a root sequence: a dict, a scalar, and (key, value) tuples
\* for a child element, an attribute, a text and an attribute whose value
\* does not stringify
RootItems ==
  { Attr("k", PyStr(S_a)),
    PyStr(S_a),
    PyTuple(<<PyKey(TagKey("tag")), Attr("k", PyStr(S_a))>>),
    PyTuple(<<PyKey(<<"@", "k">>), PyStr(S_a)>>),
    PyTuple(<<PyKey(text_key), PyStr(S_1)>>),
    PyTuple(<<PyKey(<<"@", "v">>), OffsetStamp>>) }

RootSeqTrees ==
  { Tree("osm", PyList(e)) :
      e \in UNION { [1..n -> RootItems] : n \in 0..MaxRootItems } }

BuiltTrees ==
  { Tree("osm", Attr("k", PyStr(S_a))),
    Tree("osm", PyStr(S_a)),
    Tree("osm", PyList(<<PyTuple(<<PyKey(<<"", "node">>),
                                   Attr("id", PyInt(FALSE, S_1))>>)>>)),
    Tree("osm", PyNone),
    Tree("osm", PyDict(<<>>)),
    Tree("osm", PyDict(<< <<text_key, PyStr(S_a)>> >>)),
    Tree("osm", Attr("id", PyStr(S_1))),
    Tree("osm", Tree("tag", Attr("k", PyStr(S_a)))),
    PyDict(<<>>),
    PyDict(<< << <<"", "osm">>, PyStr(S_a) >>, << <<"", "node">>, PyStr(S_a) >> >>),
    PyDict(<< <<IntKey(S_1), PyStr(S_a)>> >>),
    Tree("osm", PyDict(<< <<IntKey(S_1), PyStr(S_a)>> >>)),
    PyList(<<PyStr(S_a)>>) }

HalfSecond == <<"5", "0", "0", "0", "0", "0">>

\* datetimes without tzinfo, with timezone.utc and with another tzinfo,
\* with and without microseconds
Stamps ==
  { PyDateTime(tz, S_date, S_time, us) :
      tz \in {"none", "utc", "other"}, us \in {ZeroMicros, HalfSecond} }

\* a datetime as an attribute, as #text, as the body of the root and of a
\* child element, and as an item of a list
StampTrees ==
  UNION { { Tree("osm", Attr("timestamp", ts)),
            Tree("osm", PyDict(<< <<text_key, ts>> >>)),
            Tree("osm", ts),
            Tree("osm", Tree("tag", ts)),
            Tree("osm", Tree("tag", PyList(<<PyStr(S_a), ts>>))) } :
          ts \in Stamps }

ArgTrees == BuiltTrees \cup RootSeqTrees \cup StampTrees

\* xml_unparse is called with the tree a parse returned
XmlUnparse ==
  /\ pc = "done" /\ result # NULLPTR
  /\ unparse_arg' = result
  /\ unparsed' = xml_unparse(result)
  /\ pc' = "unparsed"
  /\ UNCHANGED <<eid, rand, calls, handles, prof, doc, reader, parse_ret, node_type, stack, current_name,
                 current_dict, current_list, result, err, reparsed, children,
                 ledger, twin>>

\* xml_unparse is called with a tree the caller has built
XmlUnparseTree ==
  /\ pc = "start"
  /\ \E t \in ArgTrees : unparse_arg' = t /\ unparsed' = xml_unparse(t)
  /\ pc' = "tree_unparsed"
  /\ UNCHANGED <<eid, rand, calls, handles, prof, doc, reader, parse_ret, node_type, stack, current_name,
                 current_dict, current_list, result, err, reparsed, children,
                 ledger, twin>>

\* xml_parse is called with the document xml_unparse returned
Reparse ==
  /\ pc \in {"unparsed", "tree_unparsed"} /\ unparsed.status = "ok"
  /\ reparsed' = xml_parse(DocumentNodes(unparsed.root))
  /\ pc' = IF pc = "unparsed" THEN "reparsed" ELSE "tree_reparsed"
  /\ UNCHANGED <<eid, rand, calls, handles, prof, doc, reader, parse_ret, node_type, stack, current_name,
                 current_dict, current_list, result, err, unparse_arg, unparsed,
                 children, ledger, twin>>

(***************************************************************************)
(* Two calls of xml_parse side by side (two threads; a call can be         *)
(* suspended wherever it calls into Python).  A call keeps its locals in   *)
(* calls[i] and reads from the reader handles[handle_of(i)].               *)
(***************************************************************************)
Calls == {1, 2}

\* the one reader shared by every call, as a static variable would be
handle_shared(i) == 1

\* the reader of call i: xmlReaderForMemory returns a new reader, which the
\* call keeps in a local
handle_of(i) == i

\* <root><name k="a"> and nothing more: the read after the last node fails
Doc_truncated ==
  << ElementNode("root", <<>>, FALSE),
     ElementNode("name", << <<"k", S_a>> >>, FALSE), ReadError >>

PairDocuments == {Doc_osmChange, Doc_name, Doc_textsAroundChild, Doc_truncated}

NoReader == [node |-> NoNode, rest |-> <<>>]

\* the reader moved to its next node
ReaderRead(h) ==
  IF h.rest = <<>> THEN [node |-> EndOfInput, rest |-> <<>>]
  ELSE [node |-> Head(h.rest), rest |-> Tail(h.rest)]

\* the node call i stands on, as its locals parse_ret and node_type see it
CallCurrent(i) ==
  [handles[handle_of(i)].node EXCEPT !.ret = calls[i].parse_ret,
                                     !.type = calls[i].node_type]

InitPair ==
  /\ prof = "scenario"
  /\ doc = NewDocument
  /\ reader = NoNode
  /\ parse_ret = 0
  /\ node_type = "NONE"
  /\ pc = "start"
  /\ stack = InitialParser.stack
  /\ current_name = InitialParser.current_name
  /\ current_dict = InitialParser.current_dict
  /\ current_list = InitialParser.current_list
  /\ result = InitialParser.result
  /\ err = InitialParser.err
  /\ unparse_arg = NULLPTR
  /\ unparsed = NotYet
  /\ reparsed = NotYet
  /\ children = <<>>
  /\ ledger = [reader_frees |-> 0, pushed |-> 0, popped |-> 0, released |-> <<>>,
               marks |-> <<>>]
  /\ twin = optimized_InitialParser
  /\ eid = NoCall
  /\ rand = InitialRand
  /\ \E d1, d2 \in PairDocuments :
       calls = [i \in Calls |->
                  [input |-> IF i = 1 THEN d1 ELSE d2, pc |-> "start",
                   parse_ret |-> 0, node_type |-> "NONE",
                   ps |-> InitialParser]]
  /\ handles = [h \in Calls |-> NoReader]

\* call i enters xml_parse: the reader is made for its input and read once
CallEnter(i) ==
  /\ calls[i].pc = "start"
  /\ \E h \in {ReaderRead([node |-> NoNode, rest |-> calls[i].input])} :
       /\ handles' = [handles EXCEPT ![handle_of(i)] = h]
       /\ calls' = [calls EXCEPT ![i].pc = "loop",
                                 ![i].parse_ret = h.node.ret,
                                 ![i].node_type = h.node.type]

\* one turn of the loop of call i
CallTurn(i) ==
  /\ calls[i].pc = "loop" /\ calls[i].parse_ret = 1
  /\ \E ps \in {switch_node_type(calls[i].ps, CallCurrent(i))},
        it \in {iterate(CallCurrent(i))} :
       IF ps.pc # "loop"
       THEN /\ calls' = [calls EXCEPT ![i].ps = ps, ![i].pc = "returned"]
            /\ UNCHANGED handles
       ELSE \E h \in {IF it.kind = "read"
                       THEN ReaderRead(handles[handle_of(i)])
                       ELSE [handles[handle_of(i)] EXCEPT !.node = it.node]} :
              /\ handles' = [handles EXCEPT ![handle_of(i)] = h]
              /\ calls' = [calls EXCEPT ![i].ps = ps,
                                        ![i].parse_ret = h.node.ret,
                                        ![i].node_type = h.node.type]

\* the loop of call i is left with parse_ret # 1
CallExit(i) ==
  /\ calls[i].pc = "loop" /\ calls[i].parse_ret # 1
  /\ calls' = [calls EXCEPT ![i].ps = after_loop(calls[i].ps, calls[i].parse_ret),
                            ![i].pc = "returned"]
  /\ UNCHANGED handles

\* the variables of the single call, which no step of the two calls touches
single == <<prof, doc, reader, parse_ret, node_type, pc, stack, current_name,
            current_dict, current_list, result, err, unparse_arg, unparsed,
            reparsed, children, ledger, twin>>

Enter == UNCHANGED <<single, eid, rand>> /\ \E i \in Calls : CallEnter(i)
Turn == UNCHANGED <<single, eid, rand>> /\ \E i \in Calls : CallTurn(i)
Exit == UNCHANGED <<single, eid, rand>> /\ \E i \in Calls : CallExit(i)

NextPair == Enter \/ Turn \/ Exit

Next ==
  \/ FirstRead
  \/ CaseElement
  \/ CaseEndElement
  \/ CaseAttribute
  \/ CaseText
  \/ CaseOther
  \/ AllocationFails
  \/ LoopExit
  \/ ScopeExit
  \/ XmlUnparse
  \/ XmlUnparseTree
  \/ Reparse

Spec == Init /\ [][Next]_vars
SpecDeep == InitDeep /\ [][Next]_vars
SpecCoerce == InitCoerce /\ [][Next]_vars
SpecRepeat == InitRepeat /\ [][Next]_vars
SpecScenario == InitScenario /\ [][Next]_vars
SpecPair == InitPair /\ [][NextPair]_vars

(***************************************************************************)
(* Calls into element_type.c and buffered_rand.c.  No parse is under way.  *)
(***************************************************************************)
Idle ==
  /\ prof = "scenario"
  /\ doc = NewDocument
  /\ reader = NoNode
  /\ parse_ret = 0
  /\ node_type = "NONE"
  /\ pc = "start"
  /\ stack = InitialParser.stack
  /\ current_name = InitialParser.current_name
  /\ current_dict = InitialParser.current_dict
  /\ current_list = InitialParser.current_list
  /\ result = InitialParser.result
  /\ err = InitialParser.err
  /\ unparse_arg = NULLPTR
  /\ unparsed = NotYet
  /\ reparsed = NotYet
  /\ children = <<>>
  /\ ledger = [reader_frees |-> 0, pushed |-> 0, popped |-> 0, released |-> <<>>,
               marks |-> <<>>]
  /\ twin = optimized_InitialParser
  /\ calls = <<>>
  /\ handles = <<>>

InitCalls == Idle /\ eid = NoCall /\ rand = InitialRand

\* the element types tried: the three interned names, names that are not
\* interned, an unknown one and the empty str
ElementTypes ==
  {node_str, way_str, relation_str, <<"n">>, <<"w", "a", "y", "s">>,
   <<"x">>, <<>>}

\* magnitudes around 0, 2^14, 2^28, 2^56, 2^63 and 2^64
Magnitudes ==
  {WordZero, Word(1, 0, 0, 0, 0), Word(LimbMax, 0, 0, 0, 0),
   Word(0, 1, 0, 0, 0), Word(5, 0, 7, 0, 0), Word(0, 0, 0, LimbMax, 0),
   Word(LimbMax, LimbMax, LimbMax, LimbMax, 0), Word(0, 0, 0, 0, 1),
   Word(1, 0, 0, 0, SIGN_MASK), Word(LimbMax, LimbMax, LimbMax, LimbMax, TopI64 - 1),
   Word(0, 0, 0, 0, TopI64), Word(1, 0, 0, 0, TopI64), Word(0, 0, 0, 0, TopU64)}

ElementIds ==
  {Long(neg, mag) : neg \in BOOLEAN, mag \in Magnitudes} \ {Long(TRUE, WordZero)}

Decimal(digits) == [i \in 1..Len(digits) |-> DigitChars[digits[i] + 1]]
\* 2^56 - 1, 2^56 and 2^63 in decimal
Dec_2_56m1 == Decimal(<<7, 2, 0, 5, 7, 5, 9, 4, 0, 3, 7, 9, 2, 7, 9, 3, 5>>)
Dec_2_56 == Decimal(<<7, 2, 0, 5, 7, 5, 9, 4, 0, 3, 7, 9, 2, 7, 9, 3, 6>>)
Dec_2_63 == Decimal(<<9, 2, 2, 3, 3, 7, 2, 0, 3, 6, 8, 5, 4, 7, 7, 5, 8, 0, 8>>)

ElementRefs ==
  {<<"1", "v", "1">>, <<"-", "1", "v", "2">>, <<"0", "v", "1">>,
   <<"5", "v">>, <<"v", "1">>, <<"5", "v", "0">>, <<"5">>, <<>>,
   <<"5", "v", "-", "1">>, <<"5", "v", "x">>, <<" ", "5", "v", "1">>,
   <<"5", "x", "1">>, <<"1", "2", "v", "3", "4">>,
   Dec_2_56m1 \o <<"v", "1">>, Dec_2_56 \o <<"v", "1">>,
   <<"-">> \o Dec_2_56m1 \o <<"v", "7">>, <<"-">> \o Dec_2_56 \o <<"v", "1">>,
   Dec_2_63 \o <<"v", "1">>, <<"1", "v">> \o Dec_2_63,
   Dec_2_56 \o Dec_2_56 \o <<"v">> \o Dec_2_56}

TypedElementId ==
  /\ eid.fn = "none"
  /\ \E type \in ElementTypes, id \in ElementIds :
       eid' = [NoCall EXCEPT !.fn = "typed_element_id", !.type = type,
                             !.id = id, !.ret = typed_element_id(type, id)]
  /\ UNCHANGED <<single, calls, handles, rand>>

\* the typed id that was returned is split again
SplitTypedElementId ==
  /\ eid.fn = "typed_element_id" /\ eid.ret.status = "ok"
  /\ eid' = [eid EXCEPT !.fn = "split_typed_element_id",
                        !.back = split_typed_element_id_impl(eid.ret.value)]
  /\ UNCHANGED <<single, calls, handles, rand>>

\* an int that no typed id was encoded to is split
SplitAny ==
  /\ eid.fn = "none"
  /\ \E id \in ElementIds :
       eid' = [NoCall EXCEPT !.fn = "split_any", !.id = id,
                             !.back = split_typed_element_id_impl(id)]
  /\ UNCHANGED <<single, calls, handles, rand>>

VersionedTypedElementId ==
  /\ eid.fn = "none"
  /\ \E type \in ElementTypes, ref \in ElementRefs :
       \E r \in {versioned_typed_element_id(type, ref)}, o \in UndefinedOutcomes :
         eid' = [NoCall EXCEPT
                   !.fn = "versioned_typed_element_id", !.type = type,
                   !.ref = ref,
                   !.ret = IF r.status = "ub"
                           THEN [r EXCEPT !.status = "crash", !.err = o]
                           ELSE r]
  /\ UNCHANGED <<single, calls, handles, rand>>

NextElementId ==
  \/ TypedElementId
  \/ SplitTypedElementId
  \/ SplitAny
  \/ VersionedTypedElementId

SpecElementId == InitCalls /\ [][NextElementId]_vars

\* the sizes asked for, and the suffix lengths (-1: no suffix given)
Sizes == {-1, 0, 16, 100, 256, 257}
SuffixLens == {-1, 0, 15, 16}

BufferedRandbytes ==
  /\ \E n \in Sizes : rand' \in buffered_randbytes(rand, n)
  /\ UNCHANGED <<single, calls, handles, eid>>

BufferedRandUrlsafe ==
  /\ \E n \in Sizes : rand' \in buffered_rand_urlsafe(rand, n)
  /\ UNCHANGED <<single, calls, handles, eid>>

BufferedRandStorageKey ==
  /\ \E suffix_len \in SuffixLens :
       rand' \in buffered_rand_storage_key(rand, suffix_len)
  /\ UNCHANGED <<single, calls, handles, eid>>

NextRand == BufferedRandbytes \/ BufferedRandUrlsafe \/ BufferedRandStorageKey

SpecRand == InitCalls /\ [][NextRand]_vars

(***************************************************************************)
(* Properties.  The names below are those of the specification text: the   *)
(* force sets, the groups of the coercion table and the shape of numerals  *)
(* are written out here and not taken from the tables of the parser.       *)
(***************************************************************************)
ForceListNames ==
  {"comment", "gpx_file", "member", "nd", "note", "preference", "tag", "trk",
   "trkpt", "trkseg"}
ForceItemsNames ==
  {"bounds", "create", "delete", "modify", "node", "relation", "way"}
IntKeys ==
  {"id", "ref", "uid", "changeset", "changes_count", "num_changes",
   "comments_count"}
FloatKeys == {"lat", "lon", "ele", "min_lat", "min_lon", "max_lat", "max_lon"}
BoolKeys == {"open", "pending", "visible"}
DateKeys ==
  {"date", "time", "timestamp", "created_at", "updated_at", "closed_at"}

\* xml_parse has returned a tree and its scope is still alive
Returned == pc = "exit" /\ result # NULLPTR

\* the loop is about to handle the close of an element
Closing == pc = "loop" /\ parse_ret = 1 /\ node_type = "END_ELEMENT"
\* the closed children of the element that is closing, and its own value
Kids == children[Len(children)]
Produced == current_result_of(current_dict, current_list)

\* the loop is about to coerce an attribute or a text: its key and raw value
CoercionTurn == pc = "loop" /\ parse_ret = 1 /\ node_type \in {"ATTRIBUTE", "TEXT"}
TurnKey == IF node_type = "ATTRIBUTE" THEN reader.name ELSE current_name[2]
TurnRaw == reader.value

\* ------------------------------------------------------------------ C1
\* C1: for every document on which xml_parse succeeds, xml_unparse of the
\* tree succeeds and xml_parse of the document it wrote succeeds and
\* returns an equal tree.
C1_RoundTrip ==
  /\ pc \in {"unparsed", "reparsed"} => unparsed.status = "ok"
  /\ pc = "reparsed" => reparsed.status = "ok" /\ reparsed.value = result

\* ------------------------------------------------------------------ C2
\* C2: a successful parse returns a dict with exactly one entry, whose key
\* is the local name of the root element and whose value is the result
\* built for the root element.
C2_RootEntry ==
  [][ (pc = "loop" /\ pc' = "exit" /\ result' # NULLPTR) =>
        /\ node_type = "END_ELEMENT"
        /\ result'.t = "Dict"
        /\ Len(result'.e) = 1
        /\ result'.e[1][1] = <<"", doc.root>>
        /\ result'.e[1][2] = Produced ]_vars

C2_Witness ==
  /\ Returned
  /\ doc.root = "tag"
  /\ result = PyDict(<< << <<"", "tag">>, result.e[1][2] >> >>)
  /\ result.e[1][2].t = "Dict"
  /\ Len(children[1]) >= 1

\* ------------------------------------------------------------------ C3
RECURSIVE ForceListEntriesAreSeq(_)
\* in the value v, every dict entry keyed by a force_list element name
\* holds a list
ForceListEntriesAreSeq(v) ==
  IF v.t = "Dict"
  THEN \A i \in 1..Len(v.e) :
         /\ (v.e[i][1][1] = "" /\ v.e[i][1][2] \in ForceListNames)
              => v.e[i][2].t = "List"
         /\ ForceListEntriesAreSeq(v.e[i][2])
  ELSE IF v.t \in {"List", "Tuple"}
       THEN \A i \in 1..Len(v.e) : ForceListEntriesAreSeq(v.e[i])
  ELSE TRUE

\* C3 as stated: in the returned tree every dict entry keyed by a
\* force_list name holds a list, the entry of the document root included.
C3_EveryEntry == Returned => ForceListEntriesAreSeq(result)

\* C3: in the returned tree every dict entry below the root entry that is
\* keyed by a force_list name holds a list, also when the element occurred
\* once; the root entry itself holds the root's result as it is.
C3_BelowRoot == Returned => ForceListEntriesAreSeq(result.e[1][2])

C3_Witness ==
  /\ Returned
  /\ result.e[1][2].t = "Dict"
  /\ \E i \in 1..Len(result.e[1][2].e) :
       /\ result.e[1][2].e[i][1] = <<"", "tag">>
       /\ result.e[1][2].e[i][2].t = "List"
       /\ Len(result.e[1][2].e[i][2].e) = 1

\* ------------------------------------------------------------------ C4
IsSeqOfPairs(v) ==
  /\ v # NULLPTR
  /\ v.t = "List"
  /\ \A j \in 1..Len(v.e) : v.e[j].t = "Tuple" /\ Len(v.e[j].e) = 2

\* the closing element keeps no dict entry for the child name
NotKeyed(name) ==
  current_dict = PyNone
    \/ \A j \in 1..Len(current_dict.e) : current_dict.e[j][1] # <<"", name>>

\* C4 as stated: an element with a force_items child produces a list of
\* two-element tuples and keeps no dict entry for that child.
C4_EveryItem ==
  Closing =>
    \A i \in 1..Len(Kids) :
      Kids[i].name \in ForceItemsNames =>
        IsSeqOfPairs(Produced) /\ NotKeyed(Kids[i].name)

\* C4: an element with a force_items child that handed it a result (the
\* child had an attribute, a text or a child with a result) produces a list
\* of two-element tuples, one of them (name, result) of that child, and
\* keeps no dict entry for it; a force_items child without a result leaves
\* the value of its parent as it was.
C4_ItemWithResult ==
  Closing =>
    \A i \in 1..Len(Kids) :
      (Kids[i].name \in ForceItemsNames /\ Kids[i].value # NULLPTR) =>
        /\ IsSeqOfPairs(Produced)
        /\ NotKeyed(Kids[i].name)
        /\ \E j \in 1..Len(Produced.e) :
             Produced.e[j] =
               PyTuple(<<PyKey(<<"", Kids[i].name>>), Kids[i].value>>)

C4_Witness ==
  /\ Closing
  /\ current_dict # PyNone
  /\ \E i \in 1..Len(Kids) : Kids[i].name = "node" /\ Kids[i].value # NULLPTR
  /\ IsSeqOfPairs(Produced)

\* ------------------------------------------------------------------ C5
\* the scalar variant the coercion table declares for key k
DeclaredVariant(k, v) ==
  IF k \in IntKeys THEN v.t = "Int"
  ELSE IF k \in FloatKeys THEN v.t = "Float"
  ELSE IF k \in BoolKeys THEN v.t = "Bool"
  ELSE IF k \in DateKeys THEN v.t = "Timestamp"
  ELSE IF k = "version" THEN v.t \in {"Int", "Float"}
  ELSE TRUE

RECURSIVE Typed(_, _)
\* v, the value of an element called name, holds the declared variants
Typed(name, v) ==
  IF v.t = "Dict"
  THEN \A i \in 1..Len(v.e) :
         LET k == v.e[i][1]
         IN  IF k[1] = "@" THEN DeclaredVariant(k[2], v.e[i][2])
             ELSE IF k[1] = "#" THEN DeclaredVariant(name, v.e[i][2])
             ELSE Typed(k[2], v.e[i][2])
  ELSE IF v.t = "List"
       THEN \A i \in 1..Len(v.e) :
              IF v.e[i].t = "Tuple"
              THEN LET k == v.e[i].e[1].k
                   IN  IF k[1] = "@" THEN DeclaredVariant(k[2], v.e[i].e[2])
                       ELSE IF k[1] = "#" THEN DeclaredVariant(name, v.e[i].e[2])
                       ELSE Typed(k[2], v.e[i].e[2])
              ELSE Typed(name, v.e[i])
  ELSE DeclaredVariant(name, v)

\* a decimal integer numeral: white space, an optional sign, digits
IsIntText(s) ==
  LET t == SkipSpace(s)
      b == IF HasSign(t) THEN Tail(t) ELSE t
  IN  b # <<>> /\ AllDigits(b)

\* a decimal floating numeral: white space, an optional sign, digits with an
\* optional fraction, an optional exponent
IsFloatText(s) ==
  LET t  == SkipSpace(s)
      b  == IF HasSign(t) THEN Tail(t) ELSE t
      ip == DigitPrefix(b)
      r1 == SubSeq(b, Len(ip) + 1, Len(b))
      fp == IF r1 # <<>> /\ Head(r1) = "." THEN DigitPrefix(Tail(r1)) ELSE <<>>
      r2 == IF r1 # <<>> /\ Head(r1) = "."
            THEN SubSeq(r1, Len(fp) + 2, Len(r1)) ELSE r1
      x  == IF r2 = <<>> THEN <<>> ELSE Tail(r2)
      d  == IF HasSign(x) THEN Tail(x) ELSE x
  IN  /\ ip # <<>> \/ fp # <<>>
      /\ r2 = <<>> \/ (Head(r2) \in {"e", "E"} /\ d # <<>> /\ AllDigits(d))

\* the raw text is no literal of the variant declared for key k
CannotCoerce(k, raw) ==
  \/ k \in IntKeys /\ ~IsIntText(raw)
  \/ k \in FloatKeys /\ ~IsFloatText(raw)
  \/ k \in BoolKeys /\ raw \notin {S_true, S_false}
  \/ k = "version" /\ ~IsIntText(raw) /\ ~IsFloatText(raw)

\* the turn ends the parse without a tree
TurnFails == pc' = "exit" /\ result' = NULLPTR /\ err'.kind # "none"

\* C5: in a returned tree the value of every attribute and text whose key
\* is in the coercion table has the variant declared for the key, and a raw
\* text that cannot be coerced to that variant makes the parse fail.
C5_DeclaredVariants ==
  [][ /\ (pc' = "exit" /\ result' # NULLPTR) =>
           Typed(result'.e[1][1][2], result'.e[1][2])
      /\ (CoercionTurn /\ CannotCoerce(TurnKey, TurnRaw)) => TurnFails ]_vars

\* ------------------------------------------------------------------ C6
\* C6: the stack never holds more than 10 frames, and the opening of an
\* element that would push an 11th frame fails the parse with
\* NestingTooDeep and leaves the stack as it was.
C6_StackBound ==
  [][ /\ Len(stack') <= 10
      /\ (/\ pc = "loop" /\ parse_ret = 1 /\ node_type = "ELEMENT"
          /\ Len(stack) = 10)
           => /\ pc' = "exit"
              /\ err'.kind = "NestingTooDeep"
              /\ result' = NULLPTR
              /\ stack' = stack ]_vars

C6_Witness ==
  pc = "exit" /\ err.kind = "NestingTooDeep" /\ Len(stack) = 10

\* ------------------------------------------------------------------ C7
\* C7: when xml_parse returns a tree the stack is empty, and a parse whose
\* input ends while the stack holds a frame returns an error and no tree.
C7_EmptyOnSuccess ==
  /\ Returned => stack = <<>>
  /\ (pc = "exit" /\ parse_ret = 0 /\ stack # <<>>) =>
       result = NULLPTR /\ err.kind # "none"

C7_Witness ==
  /\ Returned
  /\ stack = <<>>
  /\ \E i \in 1..Len(children[1]) :
       children[1][i].value # NULLPTR /\ children[1][i].value.t = "Dict"

\* ------------------------------------------------------------------ C8
\* C8: the first error of a parse aborts it.  A tokenizer error (on a read
\* or on an attribute advance) ends the loop with Malformed; once an error
\* is set the call returns it with no tree, and nothing but the exit of the
\* scope follows.
C8_FirstErrorAborts ==
  [][ /\ (pc = "loop" /\ parse_ret < 0) =>
           pc' = "exit" /\ err'.kind = "Malformed" /\ result' = NULLPTR
      /\ (err'.kind # "none" /\ pc' # "crash") =>
           pc' \in {"exit", "done"} /\ result' = NULLPTR /\ unparsed' = NotYet
      /\ (err.kind # "none" /\ pc # "crash") =>
           pc' = "done" /\ err' = err /\ result' = NULLPTR ]_vars

C8_Witness ==
  /\ pc = "exit"
  /\ err.kind = "BadValue"
  /\ Len(stack) >= 1
  /\ result = NULLPTR

\* ------------------------------------------------------------------ C9
\* the numeral is outside the range of the variant
OutOfRange(k, raw) ==
  \/ k \in IntKeys /\ IsIntText(raw) /\ strtoll(raw).erange
  \/ k \in FloatKeys /\ IsFloatText(raw) /\ strtod(raw).erange

\* C9: for a key of the integer or of the float group, an attribute or text
\* value that is no well-formed number of that kind (empty, non-numeric,
\* trailing garbage, out of range) makes the parse fail with BadValue for
\* that key and raw value.
C9_BadNumberFails ==
  [][ (/\ CoercionTurn
       /\ TurnKey \in IntKeys \cup FloatKeys
       /\ CannotCoerce(TurnKey, TurnRaw) \/ OutOfRange(TurnKey, TurnRaw))
        => /\ pc' = "exit"
           /\ result' = NULLPTR
           /\ err' = BadValue(TurnKey, TurnRaw) \/ err'.kind = "OutOfMemory"
    ]_vars

\* ------------------------------------------------------------------ C10
RECURSIVE ResultsOf(_, _)
\* the results that the children called n handed over, in document order
ResultsOf(kids, n) ==
  IF kids = <<>> THEN <<>>
  ELSE (IF Head(kids).name = n /\ Head(kids).value # NULLPTR
        THEN <<Head(kids).value>> ELSE <<>>) \o ResultsOf(Tail(kids), n)

\* C10: a child name outside force_items that occurs n >= 2 times with a
\* result under one parent has an entry in the parent's dict that is a list
\* of exactly those n results in document order.
C10_RepeatedChild ==
  Closing =>
    \A n \in {Kids[i].name : i \in 1..Len(Kids)} \ ForceItemsNames :
      Len(ResultsOf(Kids, n)) >= 2 =>
        /\ current_dict # PyNone
        /\ \E j \in 1..Len(current_dict.e) :
             current_dict.e[j] = << <<"", n>>, PyList(ResultsOf(Kids, n)) >>


\* ------------------------------------------------------------------ C11
\* C11 as stated: in the dict of an element, the entry of a child name holds
\* a list only if the name is in force_list or at least two children of
\* that name handed over a result.
C11_SeqOnlyForcedOrRepeated ==
  Closing /\ current_dict # PyNone =>
    \A j \in 1..Len(current_dict.e) :
      LET k == current_dict.e[j][1]
      IN  (k[1] = "" /\ current_dict.e[j][2].t = "List") =>
            k[2] \in ForceListNames \/ Len(ResultsOf(Kids, k[2])) >= 2

\* C11: in the dict of an element, the entry of a child name holds a list
\* only if the name is in force_list, or at least two children of that name
\* handed over a result, or the one child of that name handed over a list
\* (its own sequence of (name, value) tuples); one result of a name outside
\* force_list is stored as it is, never wrapped.
C11_SeqEntry ==
  Closing /\ current_dict # PyNone =>
    \A j \in 1..Len(current_dict.e) :
      LET k == current_dict.e[j][1]
          v == current_dict.e[j][2]
          r == ResultsOf(Kids, k[2])
      IN  k[1] = "" =>
            /\ v.t = "List" =>
                 \/ k[2] \in ForceListNames
                 \/ Len(r) >= 2
                 \/ Len(r) = 1 /\ r[1].t = "List"
            /\ (Len(r) = 1 /\ k[2] \notin ForceListNames) => v = r[1]

C11_Witness ==
  /\ Closing /\ current_dict # PyNone
  /\ \E j \in 1..Len(current_dict.e) :
       /\ current_dict.e[j][1] = <<"", "osm">>
       /\ Len(ResultsOf(Kids, "osm")) = 1
       /\ current_dict.e[j][2] = ResultsOf(Kids, "osm")[1]
       /\ current_dict.e[j][2].t = "Dict"

\* ------------------------------------------------------------------ C12
\* C12: the close of a root element that has no attribute, no text and no
\* child with a result ends the parse with the one-entry dict {root: {}};
\* only a failed allocation may end it otherwise.
C12_EmptyRoot ==
  [][ (/\ Closing /\ stack = <<>>
       /\ current_dict = PyNone /\ current_list = PyNone)
        => \/ /\ pc' = "exit"
              /\ result' = PyDict(<< <<current_name, PyDict(<<>>)>> >>)
           \/ pc' = "exit" /\ err'.kind = "OutOfMemory" ]_vars

\* ------------------------------------------------------------------ C13
\* the values of the two elements of Doc_osmChange
NodeOne == PyDict(<< << <<"@", "id">>, PyInt(FALSE, S_1) >> >>)
WayTwo  == PyDict(<< << <<"@", "id">>, PyInt(FALSE, S_2) >> >>)
Item(name, value) == PyTuple(<<PyKey(<<"", name>>), value>>)

\* C13 as stated: the parse of Doc_osmChange returns a dict under osmChange
\* with the keys create and modify, each holding a list of (name, value)
\* tuples.
C13_ChangeKeyed ==
  (Returned /\ doc.root = "osmChange") =>
    result = PyDict(<< << <<"", "osmChange">>,
               PyDict(<< << <<"", "create">>, PyList(<<Item("node", NodeOne)>>) >>,
                         << <<"", "modify">>, PyList(<<Item("way", WayTwo)>>) >>
                      >>) >> >>)

\* C13: the parse of Doc_osmChange returns, under osmChange, a list of the
\* two tuples (create, [(node, {@id: 1})]) and (modify, [(way, {@id: 2})]):
\* create and modify are force_items names, as node and way are.
C13_ChangeItems ==
  (Returned /\ doc.root = "osmChange") =>
    result = PyDict(<< << <<"", "osmChange">>,
               PyList(<< Item("create", PyList(<<Item("node", NodeOne)>>)),
                         Item("modify", PyList(<<Item("way", WayTwo)>>)) >>)
             >> >>)

C13_Witness ==
  /\ Returned /\ doc.root = "osmChange" /\ doc.script = <<>>
  /\ result.e[1][2].t = "List"
  /\ Len(result.e[1][2].e) = 2

\* ------------------------------------------------------------------ C14
\* what the claim lets an element with a dict and no list hand over: the
\* value of #text when that is the only entry, the dict otherwise
TextOrDict ==
  IF Len(current_dict.e) = 1 /\ current_dict.e[1][1] = <<"#", "text">>
  THEN current_dict.e[1][2]
  ELSE current_dict

\* v is x, or a list that ends with x
EndsWith(v, x) == v = x \/ (v.t = "List" /\ v.e # <<>> /\ v.e[Len(v.e)] = x)

\* the close of the current element has been carried out by the step
Closed ==
  /\ Closing
  /\ \/ pc' = "loop" /\ Len(stack') = Len(stack) - 1
     \/ pc' = "exit" /\ result' # NULLPTR

\* C14: when an element closes with a dict and no list, its parent receives
\* the bare value of #text if #text is the dict's only entry, and the dict
\* itself otherwise: as the value of the root entry, as the value of a
\* (name, value) tuple for a force_items name, under the key of its name
\* (alone or last in a list) for any other name.
C14_TextOnlyUnwrapped ==
  [][ (Closed /\ current_list = PyNone /\ current_dict # PyNone) =>
        IF stack = <<>>
        THEN result' = PyDict(<< <<current_name, TextOrDict>> >>)
        ELSE IF current_name[2] \in ForceItemsNames
             THEN current_list'.e[Len(current_list'.e)] =
                    PyTuple(<<PyKey(current_name), TextOrDict>>)
             ELSE EndsWith(PyDict_GetItem(current_dict', current_name),
                           TextOrDict) ]_vars

\* a text-only element and an attribute-only element have closed under one
\* parent
C14_Witness ==
  /\ Closing
  /\ \E i, j \in 1..Len(Kids) :
       /\ Kids[i].value # NULLPTR /\ Kids[i].value.t = "Str"
       /\ Kids[j].value # NULLPTR /\ Kids[j].value.t = "Dict"
       /\ Len(Kids[j].value.e) = 1
       /\ Kids[j].value.e[1][1][1] = "@"

\* ------------------------------------------------------------------ C15
\* C15: for every tree on which xml_unparse succeeds, xml_parse of the
\* document it wrote succeeds and returns an equal tree, the order of the
\* entries of every dict included.
C15_TreeRoundTrip ==
  pc = "tree_reparsed" =>
    reparsed.status = "ok" /\ reparsed.value = unparse_arg

\* ------------------------------------------------------------------ C16
\* the item is a tuple labelled #text
IsTextItem(x) == x.t = "Tuple" /\ x.e[1] = PyKey(<<"#", "text">>)
\* the item is a tuple labelled with a force_items name
IsForcedItem(x) ==
  x.t = "Tuple" /\ x.e[1].k[1] = "" /\ x.e[1].k[2] \in ForceItemsNames

RECURSIVE NoTextItem(_)
\* no list in v holds a tuple labelled #text
NoTextItem(v) ==
  IF v.t = "Dict" THEN \A i \in 1..Len(v.e) : NoTextItem(v.e[i][2])
  ELSE IF v.t = "List"
       THEN \A i \in 1..Len(v.e) : ~IsTextItem(v.e[i]) /\ NoTextItem(v.e[i])
  ELSE IF v.t = "Tuple" THEN NoTextItem(v.e[2])
  ELSE TRUE

RECURSIVE TextItemsLast(_)
\* every list in v holds at most one tuple labelled #text, and only after a
\* tuple of a force_items name
TextItemsLast(v) ==
  IF v.t = "Dict" THEN \A i \in 1..Len(v.e) : TextItemsLast(v.e[i][2])
  ELSE IF v.t = "List"
       THEN /\ \A i \in 1..Len(v.e) :
                 /\ IsTextItem(v.e[i]) =>
                      /\ \E j \in 1..(i - 1) : IsForcedItem(v.e[j])
                      /\ \A j \in 1..Len(v.e) : IsTextItem(v.e[j]) => j = i
                 /\ TextItemsLast(v.e[i])
  ELSE IF v.t = "Tuple" THEN TextItemsLast(v.e[2])
  ELSE TRUE

\* C16 as stated: in the returned tree #text is a key of dicts only; no
\* list holds an item labelled #text.
C16_TextOnlyInMaps == Returned => NoTextItem(result)

\* C16: in the returned tree #text is a key of a dict, or the label of a
\* (#text, value) tuple in the list of an element that has force_items
\* children and text; such a list holds one #text tuple at most, after the
\* tuple of a force_items child.
C16_TextItemsLast == Returned => TextItemsLast(result)

C16_Witness ==
  /\ Returned
  /\ result.e[1][2].t = "List"
  /\ \E i \in 1..Len(result.e[1][2].e) : IsTextItem(result.e[1][2].e[i])

\* ------------------------------------------------------------------ C17
RECURSIVE TextEntries(_, _)
\* the values of the entries e[i..] of a dict that are keyed #text
TextEntries(e, i) ==
  IF i > Len(e) THEN <<>>
  ELSE (IF e[i][1] = <<"#", "text">> THEN <<e[i][2]>> ELSE <<>>)
         \o TextEntries(e, i + 1)

\* the #text values in the dict slot d of a frame
TextOf(d) == IF d.t = "Dict" THEN TextEntries(d.e, 1) ELSE <<>>

\* v is the coerced value of the raw text of an element called name
CoercedText(name, raw, v) ==
  IF name \in IntKeys \cup FloatKeys \cup BoolKeys \cup DateKeys \cup {"version"}
  THEN DeclaredVariant(name, v)
  ELSE v = PyStr(raw)

\* C17: a text event leaves the dict of the element with one #text entry,
\* the coerced value of that event, whatever text the element had before;
\* no other turn changes the text of an element: an attribute and a node
\* without a case leave it, an opening child saves it in the pushed frame,
\* a closing child restores it from the popped frame.  So at its close an
\* element holds the value of its last text event only.
C17_LastTextWins ==
  [][ (pc = "loop" /\ parse_ret = 1 /\ pc' = "loop") =>
        CASE node_type = "TEXT" ->
               /\ Len(TextOf(current_dict')) = 1
               /\ CoercedText(current_name[2], reader.value,
                              TextOf(current_dict')[1])
          [] node_type = "ELEMENT" ->
               /\ TextOf(current_dict') = <<>>
               /\ current_dict # NULLPTR =>
                    TextOf(stack'[Len(stack')].dict) = TextOf(current_dict)
          [] node_type = "END_ELEMENT" ->
               TextOf(current_dict') = TextOf(stack[Len(stack)].dict)
          [] OTHER -> TextOf(current_dict') = TextOf(current_dict) ]_vars

\* <root>a<name k="a"/>1</root> is about to close: the second text has
\* taken the place of the first
C17_Witness ==
  /\ Closing /\ stack = <<>>
  /\ current_dict = PyDict(<< <<text_key, PyStr(S_1)>>,
                              << <<"", "name">>, Attr("k", PyStr(S_a)) >> >>)

\* ------------------------------------------------------------------ C18
\* the frames of the stack, newest first
NewestFirst(s) == [i \in 1..Len(s) |-> s[Len(s) + 1 - i]]

\* C18: while xml_parse runs, the reader has not been freed, no frame has
\* been released, and every frame pushed so far has been popped or is on
\* the stack.  Every way out of the loop (a tree, a value that cannot be
\* coerced, nesting too deep, a tokenizer error, a failed allocation) ends
\* in the exit of the scope, which frees the reader once, leaves the stack
\* at depth 0 and releases each frame still on it once; nothing is
\* released after that.
C18_ReleasedOnce ==
  [][ /\ pc' \in {"loop", "exit"} =>
           /\ ledger'.reader_frees = 0
           /\ ledger'.released = <<>>
           /\ ledger'.pushed = ledger'.popped + Len(stack')
      /\ pc = "exit" =>
           /\ pc' = "done"
           /\ stack' = <<>>
           /\ ledger'.reader_frees = 1
           /\ ledger'.released = NewestFirst(stack)
           /\ ledger'.pushed = ledger'.popped + Len(ledger'.released)
      /\ pc \in {"done", "unparsed", "reparsed"} => ledger' = ledger ]_vars

\* the parse that failed at depth 10 has returned: its ten frames have
\* been released
C18_Witness ==
  /\ pc = "done"
  /\ err.kind = "NestingTooDeep"
  /\ stack = <<>>
  /\ ledger.reader_frees = 1
  /\ Len(ledger.released) = 10
  /\ ledger.pushed = 10 /\ ledger.popped = 0

\* ------------------------------------------------------------------ C19
\* what a call returns: the tree, or the error
Outcome(ps) ==
  IF ps.result # NULLPTR
  THEN [status |-> "ok", value |-> ps.result, err |-> NoError]
  ELSE [status |-> "error", value |-> NULLPTR, err |-> ps.err]

\* C19: of two calls of xml_parse whose turns are interleaved in any order,
\* each has its own reader, every step changes the locals and the reader of
\* one call and leaves those of the other call as they were, and each call
\* returns what xml_parse returns for its input when it runs alone.
C19_CallsIndependent ==
  [][ /\ \A i, j \in Calls : i # j => handle_of(i) # handle_of(j)
      /\ \E i \in Calls :
           \A j \in Calls \ {i} :
             /\ calls'[j] = calls[j]
             /\ handles'[handle_of(j)] = handles[handle_of(j)]
      /\ \A i \in Calls :
           calls'[i].pc = "returned" =>
             Outcome(calls'[i].ps) = xml_parse(calls'[i].input) ]_vars

\* both calls are inside their loops, on different inputs, each with a
\* frame on its stack and a value in its current dict
C19_Witness ==
  /\ calls # <<>>
  /\ calls[1].input = Doc_osmChange /\ calls[2].input = Doc_textsAroundChild
  /\ \A i \in Calls :
       /\ calls[i].pc = "loop"
       /\ Len(calls[i].ps.stack) >= 1
       /\ calls[i].ps.current_dict.t = "Dict"

\* ------------------------------------------------------------------ C20
\* the errors of xml_unparse about the root: ValueError "Invalid root
\* element count" and TypeError "Root key must be a string"
BadRootErrors == {"BadRoot", "BadRootKey"}

\* the dict has not exactly one entry, or its one key is no str
IsBadRoot(t) == Len(t.e) # 1 \/ t.e[1][1][1] = "int"

\* C20: xml_unparse called with a dict that has not exactly one entry, or
\* whose one key is no str, fails with an error about the root and returns
\* no document, so that no document of such a tree is ever parsed.
C20_BadRootRejected ==
  /\ (pc = "tree_unparsed" /\ unparse_arg.t = "Dict" /\ IsBadRoot(unparse_arg))
       => /\ unparsed.status = "error"
          /\ unparsed.err \in BadRootErrors
          /\ unparsed.root = NoRoot
  /\ pc = "tree_reparsed" => unparse_arg.t = "Dict" /\ ~IsBadRoot(unparse_arg)

C20_Witness ==
  /\ pc = "tree_unparsed"
  /\ unparse_arg = PyDict(<< <<IntKey(S_1), PyStr(S_a)>> >>)
  /\ unparsed = [status |-> "error", err |-> "BadRootKey", root |-> NoRoot]
\* ---- C21 ----------------------------------------------------------------
IsSeqValue(v) == v.t \in {"List", "Tuple"}

\* the argument is a one-entry dict whose value is a sequence
RootIsSeq ==
  /\ unparsed # NotYet
  /\ unparse_arg.t = "Dict" /\ Len(unparse_arg.e) = 1
  /\ IsStrKey(unparse_arg.e[1][1])
  /\ IsSeqValue(unparse_arg.e[1][2])

RootSeqItems == unparse_arg.e[1][2].e

\* the elements the items e ask for: one per dict, one per scalar and one
\* for all the tuples together
EmitCount(e) ==
  Cardinality({i \in 1..Len(e) : e[i].t = "Dict"})
    + Cardinality({i \in 1..Len(e) : e[i].t \notin {"Dict", "List", "Tuple"}})
    + (IF \E i \in 1..Len(e) : IsSeqValue(e[i]) THEN 1 ELSE 0)

\* the same sequence is written without error below the root
WritableBelowRoot(e) ==
  unparse_element(XmlElement("X", <<>>, <<>>), "osm", PyList(e), FALSE).ok

\* C21: a root sequence whose items can be written is rejected with BadRoot
\* exactly when it asks for more than one root element (two dicts, two
\* scalars, or a dict or scalar next to anything else); a single dict, a
\* single scalar, or tuples only, are accepted.
C21_RootSeqRejected ==
  (RootIsSeq /\ WritableBelowRoot(RootSeqItems)) =>
     IF EmitCount(RootSeqItems) > 1
     THEN unparsed.status = "error" /\ unparsed.err = "BadRoot"
     ELSE unparsed.status = "ok"

\* two dicts at the root are rejected
C21_Witness ==
  /\ RootIsSeq
  /\ RootSeqItems = <<Attr("k", PyStr(S_a)), Attr("k", PyStr(S_a))>>
  /\ unparsed.status = "error" /\ unparsed.err = "BadRoot"

\* ---- C22 ----------------------------------------------------------------
IsPair(x) == IsSeqValue(x) /\ Len(x.e) = 2 /\ x.e[1].t = "Key"

PairsOnly(e) == e # <<>> /\ \A i \in 1..Len(e) : IsPair(e[i])

RECURSIVE AttrsAsked(_, _)
\* the attributes the tuples e[i..] ask for, in their order
AttrsAsked(e, i) ==
  IF i > Len(e) THEN <<>>
  ELSE (IF e[i].e[1].k[1] = "@"
        THEN << <<e[i].e[1].k[2], to_string(e[i].e[2]).s>> >>
        ELSE <<>>) \o AttrsAsked(e, i + 1)

Chars(s) == [j \in 1..Len(s) |-> <<"char", s[j]>>]

RECURSIVE ContentAsked(_, _)
\* the content the tuples e[i..] ask for, in their order: the characters of
\* each text and the name of each child element
ContentAsked(e, i) ==
  IF i > Len(e) THEN <<>>
  ELSE (IF e[i].e[1].k[1] = "@" THEN <<>>
        ELSE IF e[i].e[1].k = text_key THEN Chars(to_string(e[i].e[2]).s)
        ELSE << <<"elem", e[i].e[1].k[2]>> >>) \o ContentAsked(e, i + 1)

RECURSIVE ContentOf(_, _)
\* the content of an element: the characters of its texts and the names of
\* its child elements
ContentOf(kids, i) ==
  IF i > Len(kids) THEN <<>>
  ELSE (IF kids[i].k = "text" THEN Chars(kids[i].s)
        ELSE << <<"elem", kids[i].name>> >>) \o ContentOf(kids, i + 1)

RECURSIVE ChildrenAsked(_, _)
\* the values of the child tuples of e[i..], in their order
ChildrenAsked(e, i) ==
  IF i > Len(e) THEN <<>>
  ELSE (IF e[i].e[1].k[1] = "" THEN <<e[i].e[2]>> ELSE <<>>)
         \o ChildrenAsked(e, i + 1)

ElementKids(kids) == SelectSeq(kids, LAMBDA x : x.k = "elem")

\* C22: a sequence of (name, value) tuples that can be written gives one
\* element k; in the order of the sequence every @name tuple is an attribute
\* of k, every #text tuple is text of k and every other tuple is a child
\* element of k, written as unparse_element writes its value.
C22_TuplesInOneElement ==
  (RootIsSeq /\ PairsOnly(RootSeqItems) /\ WritableBelowRoot(RootSeqItems)) =>
     /\ unparsed.status = "ok"
     /\ unparsed.root # NoRoot
     /\ unparsed.root.name = unparse_arg.e[1][1][2]
     /\ unparsed.root.attrs = AttrsAsked(RootSeqItems, 1)
     /\ ContentOf(unparsed.root.kids, 1) = ContentAsked(RootSeqItems, 1)
     /\ LET asked == ChildrenAsked(RootSeqItems, 1)
            kids  == ElementKids(unparsed.root.kids)
        IN  (\A i \in 1..Len(asked) : asked[i].t = "Dict") =>
              /\ Len(kids) = Len(asked)
              /\ \A i \in 1..Len(asked) :
                   unparse_dict(XmlElement("X", <<>>, <<>>), kids[i].name,
                                asked[i]).node.kids = <<kids[i]>>

\* an attribute, a text and a child element given as three tuples
C22_Witness ==
  /\ RootIsSeq
  /\ RootSeqItems =
       << PyTuple(<<PyKey(<<"@", "k">>), PyStr(S_a)>>),
          PyTuple(<<PyKey(text_key), PyStr(S_1)>>),
          PyTuple(<<PyKey(TagKey("tag")), Attr("k", PyStr(S_a))>>) >>
  /\ unparsed.status = "ok"
  /\ unparsed.root =
       XmlElement("osm", << <<"k", S_a>> >>,
                  << XmlText(S_1), XmlElement("tag", << <<"k", S_a>> >>, <<>>) >>)

\* ---- C23 ----------------------------------------------------------------
\* the only text a timestamp is written as
StampText(ts) ==
  ts.date \o <<"T">> \o ts.time
    \o (IF ts.us = ZeroMicros THEN <<>> ELSE <<".">> \o ts.us) \o <<"Z">>

HasZone(ts) == ts.tz \notin {"none", "utc"}

RECURSIVE HasZonedStamp(_)
\* v holds a timestamp in a timezone other than UTC
HasZonedStamp(v) ==
  CASE v.t = "Timestamp" -> HasZone(v)
    [] v.t = "Dict" -> \E i \in 1..Len(v.e) : HasZonedStamp(v.e[i][2])
    [] v.t \in {"List", "Tuple"} -> \E i \in 1..Len(v.e) : HasZonedStamp(v.e[i])
    [] OTHER -> FALSE

RECURSIVE HasStamp(_)
HasStamp(v) ==
  CASE v.t = "Timestamp" -> TRUE
    [] v.t = "Dict" -> \E i \in 1..Len(v.e) : HasStamp(v.e[i][2])
    [] v.t \in {"List", "Tuple"} -> \E i \in 1..Len(v.e) : HasStamp(v.e[i])
    [] OTHER -> FALSE

RECURSIVE Stamped(_)
\* v with the text of each timestamp in the place of the timestamp
Stamped(v) ==
  CASE v.t = "Timestamp" -> PyStr(StampText(v))
    [] v.t = "Dict" ->
         PyDict([i \in 1..Len(v.e) |-> <<v.e[i][1], Stamped(v.e[i][2])>>])
    [] v.t = "List" -> PyList([i \in 1..Len(v.e) |-> Stamped(v.e[i])])
    [] v.t = "Tuple" -> PyTuple([i \in 1..Len(v.e) |-> Stamped(v.e[i])])
    [] OTHER -> v

ItemTuples(kids) ==
  LET items == SelectSeq(kids, LAMBDA c : c.name \in ForceItemsNames
                                            /\ c.value # NULLPTR)
  IN  [i \in 1..Len(items) |->
         PyTuple(<<PyKey(<<"", items[i].name>>), items[i].value>>)]

\* one (key, value) tuple per entry of dict d, in insertion order
EntryTuples(d) ==
  [i \in 1..Len(d.e) |-> PyTuple(<<PyKey(d.e[i][1]), d.e[i][2]>>)]

\* what the claim lets an element with a dict and a list hand over
ItemsThenEntries == PyList(ItemTuples(Kids) \o EntryTuples(current_dict))

\* C24: when an element closes with both a dict and a list, the value it
\* hands over (to the root entry, to its tuple in the parent's list, or to
\* its key in the parent's dict) is the list of the tuples of its force_items
\* children in document order followed by one (key, value) tuple per dict
\* entry in insertion order, each entry once.
C24_ItemsThenEntries ==
  [][ (Closed /\ current_list # PyNone /\ current_dict # PyNone) =>
        IF stack = <<>>
        THEN result' = PyDict(<< <<current_name, ItemsThenEntries>> >>)
        ELSE IF current_name[2] \in ForceItemsNames
             THEN current_list'.e[Len(current_list'.e)] =
                    PyTuple(<<PyKey(current_name), ItemsThenEntries>>)
             ELSE EndsWith(PyDict_GetItem(current_dict', current_name),
                           ItemsThenEntries) ]_vars

\* <osm k="a" v="1"><node id="1"/><tag k="a"/><way id="2"/>a</osm> has
\* returned: the tuples of node and way, then @k, @v, tag and #text
C24_Witness ==
  /\ Returned
  /\ result =
       Tree("osm",
            PyList(<< PyTuple(<<PyKey(TagKey("node")), Attr("id", PyInt(FALSE, S_1))>>),
                      PyTuple(<<PyKey(TagKey("way")), Attr("id", PyInt(FALSE, S_2))>>),
                      PyTuple(<<PyKey(<<"@", "k">>), PyStr(S_a)>>),
                      PyTuple(<<PyKey(<<"@", "v">>), PyStr(S_1)>>),
                      PyTuple(<<PyKey(TagKey("tag")),
                                PyList(<<Attr("k", PyStr(S_a))>>)>>),
                      PyTuple(<<PyKey(text_key), PyStr(S_a)>>) >>))

\* ---- C25 ----------------------------------------------------------------
\* the frame on top of the stack: the one of the parent of the open element
TopFrame == stack[Len(stack)]

ItemsOfList(l) == IF l = PyNone THEN <<>> ELSE l.e
EntriesOfDict(d) == IF d = PyNone THEN <<>> ELSE d.e

\* list b is list a, or list a with one tuple labelled name after it
OneTupleAppended(a, b, name) ==
  \/ b = a
  \/ /\ b # PyNone
     /\ Len(b.e) = Len(ItemsOfList(a)) + 1
     /\ SubSeq(b.e, 1, Len(b.e) - 1) = ItemsOfList(a)
     /\ b.e[Len(b.e)].t = "Tuple"
     /\ b.e[Len(b.e)].e[1] = PyKey(name)

\* dict b is dict a, or dict a with a new value under key (in the place key
\* had, or last when key is new)
OneKeySet(a, b, key) ==
  \/ b = a
  \/ /\ b # PyNone
     /\ Len(b.e) \in {Len(EntriesOfDict(a)), Len(EntriesOfDict(a)) + 1}
     /\ \A i \in 1..Len(EntriesOfDict(a)) :
          /\ b.e[i][1] = a.e[i][1]
          /\ a.e[i][1] # key => b.e[i] = a.e[i]
     /\ Len(b.e) > Len(EntriesOfDict(a)) =>
          /\ b.e[Len(b.e)][1] = key
          /\ \A i \in 1..Len(EntriesOfDict(a)) : a.e[i][1] # key

\* C25: the frame of a parent stays on the stack as it was saved when the
\* child opened, and when the child closes it is installed as the current
\* frame with its name, and with one change at most: one tuple labelled with
\* the name of the child appended to its list, or the key of that name set
\* in its dict, every other entry and item being kept in place.
C25_ParentRestored ==
  [][ /\ (pc = "loop" /\ pc' = "loop") =>
           \A i \in 1..Len(stack) : i <= Len(stack') => stack'[i] = stack[i]
      /\ (pc = "loop" /\ pc' = "loop" /\ node_type = "ELEMENT" /\ parse_ret = 1
            /\ current_dict # NULLPTR) =>
           stack' = Append(stack, StackFrame(current_name, current_dict,
                                             current_list))
      /\ (Closed /\ stack # <<>>) =>
           /\ stack' = SubSeq(stack, 1, Len(stack) - 1)
           /\ current_name' = TopFrame.name
           /\ \/ /\ current_dict' = TopFrame.dict
                 /\ OneTupleAppended(TopFrame.list, current_list', current_name)
              \/ /\ current_list' = TopFrame.list
                 /\ OneKeySet(TopFrame.dict, current_dict', current_name) ]_vars

\* a third child has closed into a parent that held a dict and a list: the
\* parent is current again, with its name
C25_Witness ==
  /\ pc = "loop" /\ stack = <<>>
  /\ Len(children) = 1 /\ Len(children[1]) = 3
  /\ current_name[2] = "osm"
  /\ current_dict # PyNone /\ current_list # PyNone
  /\ Len(current_list.e) = 2
  /\ \E i \in 1..Len(current_dict.e) : current_dict.e[i][1] = TagKey("tag")

\* ---- C26 ----------------------------------------------------------------
\* the element that is closing has had no attribute, no text and no child
\* other than elements of the same kind
ClosingEmpty == Closing /\ ~ledger.marks[Len(ledger.marks)]

\* C26: when an element below the root closes without having had an
\* attribute, a text or a non-empty child, the frame of its parent comes
\* back as it was saved when the element opened: the parent's dict and list
\* are unchanged, whatever the name of the element.
C26_EmptyContributesNothing ==
  [][ (ClosingEmpty /\ stack # <<>> /\ pc' = "loop") =>
        /\ current_name' = TopFrame.name
        /\ current_dict' = TopFrame.dict
        /\ current_list' = TopFrame.list
        /\ stack' = SubSeq(stack, 1, Len(stack) - 1) ]_vars

\* in <osm k="a"><node id="1"/><node/><tag/><name><way/></name></osm> the
\* empty node, tag and name have closed and osm holds what it held after
\* the first node
C26_Witness ==
  /\ pc = "loop" /\ stack = <<>>
  /\ Len(children) = 1 /\ Len(Kids) = 4
  /\ Kids[2] = Child("node", NULLPTR)
  /\ Kids[3] = Child("tag", NULLPTR)
  /\ Kids[4] = Child("name", NULLPTR)
  /\ current_dict = Attr("k", PyStr(S_a))
  /\ current_list =
       PyList(<<PyTuple(<<PyKey(TagKey("node")), Attr("id", PyInt(FALSE, S_1))>>)>>)

\* ---- C27 ----------------------------------------------------------------
RECURSIVE Expanded(_)
\* the nodes of the same document with every <e .../> written <e ...></e>
Expanded(nodes) ==
  IF nodes = <<>> THEN <<>>
  ELSE LET n == Head(nodes)
       IN  IF n.type = "ELEMENT" /\ n.empty
           THEN <<[n EXCEPT !.empty = FALSE], EndElementNode(n.name)>>
                  \o Expanded(Tail(nodes))
           ELSE <<n>> \o Expanded(Tail(nodes))

\* a turn of the loop on a self-closing element or on one of its nodes,
\* after which the loop goes on with a node
SelfClosingTurn(type) ==
  /\ pc = "loop" /\ parse_ret = 1 /\ node_type = type /\ reader.empty
  /\ pc' = "loop" /\ parse_ret' = 1

\* the next node is the first attribute not yet handled, or the close when
\* none is left; nothing is read
NextAttributeOrClose ==
  /\ doc' = doc
  /\ IF reader.attrs # <<>>
     THEN /\ node_type' = "ATTRIBUTE"
          /\ reader'.name = Head(reader.attrs)[1]
          /\ reader'.value = Head(reader.attrs)[2]
          /\ reader'.attrs = Tail(reader.attrs)
          /\ reader'.empty
     ELSE node_type' = "END_ELEMENT" /\ reader'.empty

\* C27: after the open of a self-closing element the loop handles each of
\* its attributes once, in document order, then one close that it makes up
\* itself, and only then reads the next node; the tree returned for a
\* document is the tree returned for the same document with every
\* self-closing element written as an open tag and a close tag.
C27_SelfClosing ==
  [][ /\ SelfClosingTurn("ELEMENT") => NextAttributeOrClose
      /\ SelfClosingTurn("ATTRIBUTE") =>
           /\ NextAttributeOrClose
           /\ Len(current_dict'.e) = Len(EntriesOfDict(current_dict)) + 1
           /\ current_dict'.e[Len(current_dict'.e)] =
                << <<"@", reader.name>>,
                   postprocess_value(reader.name, reader.value) >>
      /\ SelfClosingTurn("END_ELEMENT") =>
           /\ Len(stack') = Len(stack) - 1
           /\ ledger'.marks = Marked(ledger.marks, "END_ELEMENT")
           /\ [node |-> reader', doc |-> doc'] \in Reads(doc, ProfileOf(prof))
           /\ ProfileOf(prof).scripted => doc'.script = Tail(doc.script)
      /\ (pc' = "exit" /\ result' # NULLPTR /\ ProfileOf(prof).scripted) =>
           result' = xml_parse(Expanded(doc.source)).value ]_vars

\* <osm><node id="1" lat="1.5" lon="42"/><tag k="a" v="1"/></osm> has
\* returned its tree: node with its three attributes in their order, then
\* tag with its two
C27_Witness ==
  /\ Returned
  /\ doc.source = Doc_selfClosing
  /\ result.e[1][2].t = "List" /\ Len(result.e[1][2].e) = 2
  /\ LET node == result.e[1][2].e[1].e[2]
         tag  == result.e[1][2].e[2].e[2]
     IN  /\ [i \in 1..Len(node.e) |-> node.e[i][1]] =
              << <<"@", "id">>, <<"@", "lat">>, <<"@", "lon">> >>
         /\ tag = PyList(<<PyDict(<< << <<"@", "k">>, PyStr(S_a) >>,
                                     << <<"@", "v">>, PyStr(S_1) >> >>)>>)

\* ---- C28 ----------------------------------------------------------------
HasChar(raw, c) == \E i \in 1..Len(raw) : raw[i] = c

\* what the claim lets key k and raw text raw give: the value of the
\* scalarizer named for k, nullptr when that scalarizer fails
Dispatched(k, raw) ==
  IF k \in IntKeys THEN postprocess_xml_int(raw)
  ELSE IF k \in FloatKeys THEN postprocess_xml_float(raw)
  ELSE IF k \in BoolKeys THEN postprocess_xml_bool(raw)
  ELSE IF k \in DateKeys
       THEN IF HasChar(raw, " ") THEN parse_date(raw) ELSE fromisoformat(raw)
  ELSE IF k = "version"
       THEN IF HasChar(raw, ".") THEN postprocess_xml_float(raw)
            ELSE postprocess_xml_int(raw)
  ELSE PyStr(raw)

\* the key under which the turn stores the value
TurnSetKey == IF node_type = "ATTRIBUTE" THEN <<"@", reader.name>> ELSE text_key

\* C28: an attribute is coerced by its own name and a text by the name of
\* the element that owns it, through one table: a name that is no key of
\* the table gives Str(raw); version gives a Float when raw holds '.' and an
\* Int otherwise; a timestamp key goes to parse_date when raw holds a space
\* and to fromisoformat otherwise; the other keys go to the scalarizer of
\* their group.  A scalarizer that fails ends the parse with BadValue.
C28_Dispatch ==
  [][ CoercionTurn =>
        LET v == Dispatched(TurnKey, TurnRaw)
        IN  /\ pc' = "loop" =>
                 /\ v # NULLPTR
                 /\ PyDict_GetItem(current_dict', TurnSetKey) = v
                 /\ TurnKey = "version" =>
                      v.t = IF HasChar(TurnRaw, ".") THEN "Float" ELSE "Int"
                 /\ TurnKey \notin CoercedKeys => v = PyStr(TurnRaw)
            /\ pc' = "exit" =>
                 /\ result' = NULLPTR
                 /\ \/ v = NULLPTR /\ err' = BadValue(TurnKey, TurnRaw)
                    \/ err'.kind = "OutOfMemory" ]_vars

\* <version>1.5</version> has returned a Float
C28_Witness ==
  /\ Returned
  /\ result = Tree("version", postprocess_xml_float(S_1p5))
  /\ result.e[1][2].t = "Float"

\* ---- C29 ----------------------------------------------------------------
\* the turn coerces a value under one of the keys open, pending, visible
BoolTurn == CoercionTurn /\ TurnKey \in BoolKeys

\* C29: under the keys open, pending and visible the raw value "true" is
\* stored as Bool true and "false" as Bool false; every other raw value,
\* "True", "1", "" and "true" with white space before or after it among
\* them, ends the parse with BadValue for that key and raw value.  (A turn
\* whose allocation fails ends with OutOfMemory whatever the value.)
C29_BoolWords ==
  [][ BoolTurn =>
        /\ pc' \in {"loop", "exit"}
        /\ pc' = "loop" =>
              /\ TurnRaw \in {<<"t", "r", "u", "e">>, <<"f", "a", "l", "s", "e">>}
              /\ PyDict_GetItem(current_dict', TurnSetKey) =
                    PyBool(TurnRaw = <<"t", "r", "u", "e">>)
        /\ pc' = "exit" =>
              /\ result' = NULLPTR
              /\ \/ /\ TurnRaw \notin {<<"t", "r", "u", "e">>,
                                       <<"f", "a", "l", "s", "e">>}
                     /\ err' = BadValue(TurnKey, TurnRaw)
                 \/ err'.kind = "OutOfMemory" ]_vars

\* the raw values the claim names, each refused under a boolean key, and
\* both words accepted: <visible> true</visible> has failed
C29_Witness ==
  /\ pc = "exit" /\ result = NULLPTR
  /\ err = BadValue("visible", <<" ", "t", "r", "u", "e">>)
  /\ \A raw \in {S_True, S_1, S_empty, S_true_led, S_true_trail} :
        postprocess_value("open", raw) = NULLPTR
  /\ postprocess_value("pending", S_true) = PyBool(TRUE)
  /\ postprocess_value("open", S_false) = PyBool(FALSE)

\* ---- C30 ----------------------------------------------------------------
\* the characters of the names of NameOrder, name by name
Spelling ==
  << <<"N", "o", "d", "e">>, <<"b", "o", "u", "n", "d", "s">>,
     <<"c", "h", "a", "n", "g", "e", "s", "_", "c", "o", "u", "n", "t">>,
     <<"c", "h", "a", "n", "g", "e", "s", "e", "t">>,
     <<"c", "l", "o", "s", "e", "d", "_", "a", "t">>,
     <<"c", "o", "m", "m", "e", "n", "t">>,
     <<"c", "o", "m", "m", "e", "n", "t", "s", "_", "c", "o", "u", "n", "t">>,
     <<"c", "r", "e", "a", "t", "e">>,
     <<"c", "r", "e", "a", "t", "e", "d", "_", "a", "t">>,
     <<"d", "a", "t", "e">>, <<"d", "e", "l", "e", "t", "e">>,
     <<"e", "l", "e">>, <<"g", "p", "x", "_", "f", "i", "l", "e">>,
     <<"i", "d">>, <<"k">>, <<"l", "a", "t">>, <<"l", "o", "n">>,
     <<"m", "a", "x", "_", "l", "a", "t">>,
     <<"m", "a", "x", "_", "l", "o", "n">>,
     <<"m", "e", "m", "b", "e", "r">>,
     <<"m", "i", "n", "_", "l", "a", "t">>,
     <<"m", "i", "n", "_", "l", "o", "n">>,
     <<"m", "o", "d", "i", "f", "y">>, <<"n", "a", "m", "e">>,
     <<"n", "d">>, <<"n", "o", "d">>, <<"n", "o", "d", "e">>,
     <<"n", "o", "d", "e", "s">>, <<"n", "o", "t", "e">>,
     <<"n", "u", "m", "_", "c", "h", "a", "n", "g", "e", "s">>,
     <<"o", "p", "e", "n">>, <<"o", "s", "m">>,
     <<"o", "s", "m", "C", "h", "a", "n", "g", "e">>,
     <<"p", "e", "n", "d", "i", "n", "g">>,
     <<"p", "r", "e", "f", "e", "r", "e", "n", "c", "e">>,
     <<"r", "e", "f">>, <<"r", "e", "l", "a", "t", "i", "o", "n">>,
     <<"r", "o", "o", "t">>, <<"t", "a", "g">>, <<"t", "i", "m", "e">>,
     <<"t", "i", "m", "e", "s", "t", "a", "m", "p">>, <<"t", "r", "k">>,
     <<"t", "r", "k", "p">>, <<"t", "r", "k", "p", "t">>,
     <<"t", "r", "k", "s", "e", "g">>, <<"u", "i", "d">>,
     <<"u", "p", "d", "a", "t", "e", "d", "_", "a", "t">>, <<"v">>,
     <<"v", "e", "r", "s", "i", "o", "n">>,
     <<"v", "e", "r", "s", "i", "o", "n", "s">>,
     <<"v", "i", "s", "i", "b", "l", "e">>, <<"w", "a", "y">>, <<"x">> >>

Letters ==
  << "a", "b", "c", "d", "e", "f", "g", "h", "i", "j", "k", "l", "m", "n",
     "o", "p", "q", "r", "s", "t", "u", "v", "w", "x", "y", "z" >>

\* the byte of a character of a name
Byte(c) ==
  IF c = "C" THEN 67
  ELSE IF c = "N" THEN 78
  ELSE IF c = "_" THEN 95
  ELSE 96 + (CHOOSE i \in 1..Len(Letters) : Letters[i] = c)

\* strcmp on two spelled names, from character i on: the difference of the
\* first two bytes that differ, the end of a name counting as byte 0
RECURSIVE ByteCompare(_, _, _)
ByteCompare(s, t, i) ==
  LET a == IF i <= Len(s) THEN Byte(s[i]) ELSE 0
      b == IF i <= Len(t) THEN Byte(t[i]) ELSE 0
  IN  IF a # b THEN a - b
      ELSE IF a = 0 THEN 0
      ELSE ByteCompare(s, t, i + 1)

Sign(x) == IF x < 0 THEN -1 ELSE IF x > 0 THEN 1 ELSE 0

SpellingOf(n) == Spelling[NameRank(n)]

\* the comparison the lookups use has the sign of the byte-wise one
RankIsByteOrder ==
  \A i, j \in 1..Len(NameOrder) :
    Sign(strcmp(NameOrder[i], NameOrder[j])) =
      Sign(ByteCompare(Spelling[i], Spelling[j], 1))

StrictlyAscending(keys) ==
  \A i \in 1..(Len(keys) - 1) :
    ByteCompare(SpellingOf(keys[i]), SpellingOf(keys[i + 1]), 1) < 0

\* each of the three constant arrays is strictly ascending
ArraysAscending ==
  /\ StrictlyAscending(force_items_set)
  /\ StrictlyAscending(force_list_set)
  /\ StrictlyAscending(PostprocessorKeys)

\* the index the search gives for name n: that of n in keys, 0 when n is
\* not one of them
FindsExactly(n, keys, members) ==
  LET at == bsearch(n, keys, 1, Len(keys) + 1)
  IN  IF n \in members THEN at # 0 /\ keys[at] = n ELSE at = 0

TableKeys == IntKeys \cup FloatKeys \cup BoolKeys \cup DateKeys \cup {"version"}

LookupsAgree ==
  \A n \in SeqRange(NameOrder) :
    /\ in_set(n, force_items_set) <=> n \in ForceItemsNames
    /\ in_set(n, force_list_set) <=> n \in ForceListNames
    /\ FindsExactly(n, force_items_set, ForceItemsNames)
    /\ FindsExactly(n, force_list_set, ForceListNames)
    /\ FindsExactly(n, PostprocessorKeys, TableKeys)
    /\ n \notin TableKeys => \A raw \in RawValues :
                                postprocess_value(n, raw) = PyStr(raw)

TableSizes ==
  /\ Cardinality(ForceItemsNames) = 7 /\ Len(force_items_set) = 7
  /\ Cardinality(ForceListNames) = 10 /\ Len(force_list_set) = 10
  /\ Cardinality(TableKeys) = 24 /\ Len(value_postprocessor_map) = 24

\* C30: the binary searches agree with plain membership for every name
\* (the names of the three tables, the other names of the documents, and
\* names that differ from a table name by a letter or its case): in_set is
\* true exactly for the 7 force_items names and for the 10 force_list
\* names, the table lookup finds an entry exactly for its 24 keys, and each
\* of the three arrays is strictly ascending under byte-wise comparison.
\* So are the lookups the loop is about to make in the current turn.
C30_LookupsAgree ==
  /\ RankIsByteOrder
  /\ ArraysAscending
  /\ TableSizes
  /\ LookupsAgree
  /\ Closing =>
       /\ in_set(current_name[2], force_items_set)
            <=> current_name[2] \in ForceItemsNames
       /\ in_set(current_name[2], force_list_set)
            <=> current_name[2] \in ForceListNames
  /\ CoercionTurn =>
       (postprocess_value(TurnKey, TurnRaw) = PyStr(TurnRaw))
         \/ TurnKey \in TableKeys

\* <tag id="1" k="a"> is closing: tag is found in force_list and not in
\* force_items, id was found in the table and k was not
C30_Witness ==
  /\ Closing
  /\ current_name[2] = "tag"
  /\ in_set("tag", force_list_set) /\ ~in_set("tag", force_items_set)
  /\ current_dict.t = "Dict"
  /\ PyDict_GetItem(current_dict, <<"@", "id">>) = postprocess_xml_int(S_1)
  /\ postprocess_xml_int(S_1) # PyStr(S_1)
  /\ PyDict_GetItem(current_dict, <<"@", "k">>) = PyStr(S_a)

\* ---- C31 ----------------------------------------------------------------
\* the loop is about to handle the opening of an element
Opening == pc = "loop" /\ parse_ret = 1 /\ node_type = "ELEMENT"
\* the nesting depth of that element in the document, the root at depth 1
OpeningDepth == IF reader.empty THEN doc.depth + 1 ELSE doc.depth

\* C31: the opening of an element at depth 11 or less never fails with
\* NestingTooDeep, and the opening of an element at depth 12 or more fails
\* with NestingTooDeep; no other turn gives that error.  After the opening
\* of an element at depth d the stack holds d - 1 frames: the root pushes
\* none.
C31_DepthLimit ==
  [][ /\ Opening =>
           /\ OpeningDepth <= 11 => err'.kind # "NestingTooDeep"
           /\ OpeningDepth >= 12 =>
                /\ pc' = "exit"
                /\ err'.kind = "NestingTooDeep"
                /\ result' = NULLPTR
           /\ pc' = "loop" => Len(stack') = OpeningDepth - 1
      /\ (err.kind = "none" /\ err'.kind = "NestingTooDeep") =>
           Opening /\ OpeningDepth >= 12 ]_vars

\* the element at depth 12 has been refused, after the one at depth 11 had
\* been opened on a stack of ten frames
C31_Witness ==
  /\ pc = "exit"
  /\ err.kind = "NestingTooDeep"
  /\ node_type = "ELEMENT"
  /\ OpeningDepth = 12
  /\ Len(ledger.marks) = 11

\* ---- C32 ----------------------------------------------------------------
\* the elements that are open after the nodes handled so far
OpenElements == Len(ledger.marks)

\* C32: while the loop runs between the open and the close of the root,
\* the stack holds one frame less than there are open elements.  The open
\* of the root pushes no frame and the open of any other element pushes
\* one; the close of any element but the root pops one; the close of the
\* root ends the loop without a pop, so that no pop meets an empty stack.
\* Attributes, texts and other nodes leave the stack as it is.
C32_DepthIsOpenMinusOne ==
  [][ /\ (pc' = "loop" /\ OpenElements' >= 1) =>
           Len(stack') = OpenElements' - 1
      /\ (Opening /\ pc' = "loop") =>
           /\ OpenElements' = OpenElements + 1
           /\ Len(stack') = Len(stack) + (IF OpenElements = 0 THEN 0 ELSE 1)
           /\ ledger'.pushed = ledger.pushed + (IF OpenElements = 0 THEN 0 ELSE 1)
           /\ ledger'.popped = ledger.popped
           /\ OpenElements >= 1 =>
                stack' = Append(stack, StackFrame(current_name, current_dict,
                                                  current_list))
      /\ (Closing /\ OpenElements >= 2) =>
           \/ /\ pc' = "loop"
              /\ stack' = SubSeq(stack, 1, Len(stack) - 1)
              /\ ledger'.popped = ledger.popped + 1
              /\ ledger'.pushed = ledger.pushed
           \/ pc' = "exit" /\ err'.kind = "OutOfMemory"
      /\ (Closing /\ OpenElements = 1) =>
           /\ stack = <<>>
           /\ pc' # "loop"
           /\ ledger'.popped = ledger.popped
      /\ (pc = "loop" /\ pc' = "loop" /\ parse_ret = 1
            /\ node_type \notin {"ELEMENT", "END_ELEMENT"}) =>
           stack' = stack ]_vars

\* <osm><node><tag> with tag closing: three elements are open on a stack
\* of two frames, after two pushes
C32_Witness ==
  /\ Closing
  /\ OpenElements = 3
  /\ Len(stack) = 2
  /\ ledger.pushed >= 2
  /\ ledger.pushed = ledger.popped + 2

\* ---- C33 ----------------------------------------------------------------
\* C33: when an element closes, every force_list name of which n >= 1
\* children handed over a result has an entry in the element's dict, and
\* that entry is the list of exactly those n results in document order:
\* the first is wrapped once, the later ones are appended as they are.
C33_ForceListFlat ==
  Closing =>
    \A n \in {Kids[i].name : i \in 1..Len(Kids)} \cap ForceListNames :
      Len(ResultsOf(Kids, n)) >= 1 =>
        /\ current_dict # PyNone
        /\ PyDict_GetItem(current_dict, <<"", n>>) = PyList(ResultsOf(Kids, n))

\* <osm><tag id="1"/><tag k="a"/></osm> with osm closing: the entry of tag
\* is the list of the two dicts
C33_Witness ==
  /\ Closing
  /\ Len(Kids) = 2
  /\ Kids[1].name = "tag" /\ Kids[2].name = "tag"
  /\ Len(ResultsOf(Kids, "tag")) = 2
  /\ current_dict # PyNone
  /\ PyDict_GetItem(current_dict, <<"", "tag">>) =
       PyList(<<Kids[1].value, Kids[2].value>>)
  /\ Kids[1].value.t = "Dict" /\ Kids[2].value.t = "Dict"

\* ---- C34 ----------------------------------------------------------------
\* the loop is about to handle the close of the root element
ClosingRoot == Closing /\ OpenElements = 1

\* C34 as stated: the turn that handles the close of the root ends the
\* parse with a tree and reads nothing more from the tokenizer, so that an
\* error behind the end of the root is never reported.  (A turn whose
\* allocation fails ends with OutOfMemory.)
C34_ReturnsAtRootClose ==
  [][ ClosingRoot =>
        /\ doc' = doc /\ reader' = reader
        /\ parse_ret' = parse_ret /\ node_type' = node_type
        /\ pc' = "exit"
        /\ err'.kind # "Malformed"
        /\ \/ result' # NULLPTR /\ err'.kind = "none"
           \/ result' = NULLPTR /\ err'.kind = "OutOfMemory" ]_vars

\* ---- C35 ----------------------------------------------------------------
\* what is left of a given document for the loop to do: the nodes still to
\* be read, the attributes of the current element still to be visited, its
\* close still to be simulated, and the turn on the current node
TurnsLeft ==
  8 * Len(doc.script) + 2 * Len(reader.attrs)
    + (IF node_type \in {"ELEMENT", "ATTRIBUTE"} /\ reader.empty THEN 1 ELSE 0)
    + (IF parse_ret = 1 THEN 1 ELSE 0)

\* C35 as stated: on a finite stream of tokenizer events every turn of the
\* loop leaves less to do than there was (the advance to the next attribute
\* and the simulated close included), so the loop comes to an end; and the
\* loop ends with the call returning a tree or an error.
C35_Terminates ==
  [][ pc = "loop" =>
        /\ pc' \in {"loop", "exit"}
        /\ pc' = "loop" => TurnsLeft' < TurnsLeft
        /\ pc' = "exit" =>
             \/ result' # NULLPTR /\ err'.kind = "none"
             \/ result' = NULLPTR /\ err'.kind # "none" ]_vars

(***************************************************************************)
(* The bounded-stack parser and the list-stack parser on the same nodes.   *)
(***************************************************************************)
\* the locals the two parsers share, as the list-stack parser holds them
TwinLocals ==
  [pc |-> twin.pc, stack |-> twin.stack, current_name |-> twin.current_name,
   current_dict |-> twin.current_dict, current_list |-> twin.current_list,
   result |-> twin.result, err |-> twin.err]

\* no allocation has failed in either parser
NoAllocationFailure ==
  err.kind # "OutOfMemory" /\ twin.err.kind # "OutOfMemory"

C36_WitnessDeep ==
  /\ err.kind = "NestingTooDeep" /\ twin.pc = "loop"
  /\ Len(twin.stack) = STACK_SIZE + 1

\* C37: a successful xml_unparse has written a document with a root element,
\* and that element is named by the one key of the dict it was given
C37_OneRootNamedByKey ==
  (unparsed.status = "ok") =>
     /\ unparsed.root # NoRoot
     /\ unparsed.root.k = "elem"
     /\ unparsed.root.name = unparse_arg.e[1][1][1] \o unparse_arg.e[1][1][2]

\* the same for every root value but the empty sequence
C37_OneRootUnlessEmptySeq ==
  (unparsed.status = "ok" /\ unparse_arg.e[1][2] # PyList(<<>>)) =>
     /\ unparsed.root # NoRoot
     /\ unparsed.root.k = "elem"
     /\ unparsed.root.name = unparse_arg.e[1][1][1] \o unparse_arg.e[1][1][2]

(***************************************************************************)
(* Typed element ids.                                                      *)
(***************************************************************************)
TypeNames == {node_str, way_str, relation_str}

\* -2^56 < id < 2^56
InRange56(id) == id.mag[5] = 0

\* no bit of the word is set outside the 56 id bits, bit 59 and bits 60-61
OnlyTypedBits(v) ==
  /\ ~v.neg
  /\ \A i \in 1..4 : v.mag[i] \in 0..LimbMax
  /\ BitOr(v.mag[5], BitOr(SIGN_MASK, TYPE_MASK)) = BitOr(SIGN_MASK, TYPE_MASK)

\* C38: for node, way and relation, an id with -2^56 < id < 2^56 is encoded,
\* and splitting the encoded value gives the type and the id back; any other
\* id is refused with an overflow error; an encoded value has no bit set
\* outside the id bits, the sign bit and the type bits
C38_RoundTrip ==
  /\ (eid.fn \in {"typed_element_id", "split_typed_element_id"}
        /\ eid.type \in TypeNames) =>
       IF InRange56(eid.id)
       THEN /\ eid.ret.status = "ok"
            /\ eid.fn = "split_typed_element_id" =>
                 eid.back = Gives(<<eid.type, eid.id>>)
       ELSE eid.ret = Raises("OverflowError")
  /\ (eid.fn \in {"typed_element_id", "split_typed_element_id"}
        /\ eid.ret.status = "ok") => OnlyTypedBits(eid.ret.value)

\* a negative id with all 56 bits set has come back from a way
C38_Witness ==
  /\ eid.fn = "split_typed_element_id"
  /\ eid.type = way_str
  /\ eid.id = Long(TRUE, Word(LimbMax, LimbMax, LimbMax, LimbMax, 0))
  /\ eid.back = Gives(<<way_str, eid.id>>)

\* C39: versioned_typed_element_id returns a tuple of a typed id and a
\* version, both present, or raises an error
C39_TupleOrError ==
  (eid.fn = "versioned_typed_element_id") =>
     \/ eid.ret.status = "error"
     \/ /\ eid.ret.status = "ok"
        /\ Len(eid.ret.value) = 2
        /\ eid.ret.value[1] # NULLPTR /\ eid.ret.value[2] # NULLPTR

\* the same for the references whose typed id can be encoded
C39_TupleOrErrorWhenEncodable ==
  (eid.fn = "versioned_typed_element_id"
     /\ typed_element_id_impl(eid.type, strtoll_endptr(eid.ref, 1).value).status
          = "ok") =>
     \/ eid.ret.status = "error"
     \/ /\ eid.ret.status = "ok"
        /\ eid.ret.value[1] = typed_element_id_impl(
                                 eid.type, strtoll_endptr(eid.ref, 1).value).value
        /\ ~eid.ret.value[2].neg /\ eid.ret.value[2].mag # WordZero

\* the largest id that can be encoded has been read from a reference
C39_WitnessEncodable ==
  /\ eid.fn = "versioned_typed_element_id"
  /\ eid.ref = Dec_2_56m1 \o <<"v", "1">>
  /\ eid.type = relation_str
  /\ eid.ret = Gives(<<Long(FALSE, Word(LimbMax, LimbMax, LimbMax, LimbMax,
                                        TypeBits(RELATION_TYPE_NUM))),
                       Long(FALSE, Word(1, 0, 0, 0, 0))>>)

(***************************************************************************)
(* Buffered random bytes.                                                  *)
(***************************************************************************)
\* C40: 0 <= buffer_pos <= buffer_valid <= BUFFER_SIZE after every call; a
\* call that succeeds has consumed the bytes from where buffer_pos stood up
\* to where it stands now, inside the valid part of the buffer; and no byte
\* has been returned by two calls or returned without having been written
C40_BufferWindow ==
  /\ 0 <= rand.buffer_pos
  /\ rand.buffer_pos <= rand.buffer_valid
  /\ rand.buffer_valid <= BUFFER_SIZE
  /\ rand.last.status = "ok" =>
       /\ 0 <= rand.last.from
       /\ rand.buffer_pos - rand.last.from
            = (IF rand.last.fn = "buffered_rand_storage_key" THEN RAND_SIZE
               ELSE rand.last.n)
       /\ \A i \in rand.last.from..(rand.buffer_pos - 1) : i \in rand.handed
  /\ rand.reused = {}
  /\ rand.handed \subseteq Slots

\* a storage key has been made of the second sixteen bytes of a refill
C40_Witness ==
  /\ rand.last.fn = "buffered_rand_storage_key"
  /\ rand.last.status = "ok"
  /\ rand.last.from = RAND_SIZE
  /\ rand.buffer_pos = 2 * RAND_SIZE
  /\ rand.buffer_valid = BUFFER_SIZE
  /\ rand.handed = 0..(2 * RAND_SIZE - 1)

\* a call has been served by a refill that took three reads
C40_WitnessRefill ==
  /\ rand.last.status = "ok" /\ rand.last.from = 0 /\ rand.last.n = 100
  /\ rand.buffer_valid = 3 + 20 + (BUFFER_SIZE - 23)

=============================================================================
